---- MODULE Spec2Model ----
(***************************************************************************)
(* A model of the fetchless HTTP response cache: the Fetchless client      *)
(* (src/src/Fetchless.ts) and the AdvancedFetchless client built on it     *)
(* (src/src/advanced.ts).  Time is an integer clock; one unit stands for   *)
(* an arbitrary number of milliseconds.  The transport (axios) is the      *)
(* environment: a GET that was issued completes later, with a fresh        *)
(* response or with an error.                                              *)
(***************************************************************************)
EXTENDS Integers, Sequences, FiniteSets, TLC

VARIABLES
  now,                      \* Date.now(), the wall clock
  skew,                     \* Date.now() minus the monotonic clock that lru-cache reads
  config,                   \* Fetchless.config
  cache,                    \* Fetchless.cache (LRUCache), least recently used first
  stats,                    \* Fetchless.stats
  frozenUrls,               \* Fetchless.frozenUrls
  freezeCache,              \* Fetchless.freezeCache
  historyCache,             \* Fetchless.historyCache
  lastSuccessfulResponses,  \* Fetchless.lastSuccessfulResponses
  requestLog,               \* FetchlessIntelligence.requestLog
  dedupeRequests,           \* AdvancedFetchless.dedupeRequests
  retryOptions,             \* AdvancedFetchless.retryOptions
  pendingRequests,          \* AdvancedFetchless.pendingRequests
  ops,                      \* the get operations in progress (their promises)
  callers,                  \* the gets awaiting a deduplicated operation
  calls,                    \* number of get invocations made so far
  lastReturn,               \* the get that settled last and what it settled with
  transportCalls,           \* number of axiosInstance calls (get, post, put, delete) issued so far
  autoFixCalls,             \* number of times a caller's autoFix function was invoked
  created,                  \* what each createClient or constructor call was given and returned
  aborted,                  \* the gets whose AbortController has been aborted while in flight
  defaultClient,            \* the package module's defaultClient, a second client object
  localStorage              \* the Storage object an AdvancedFetchless may be constructed with

vars == <<now, skew, config, cache, stats, frozenUrls, freezeCache, historyCache,
          lastSuccessfulResponses, requestLog, dedupeRequests, retryOptions,
          pendingRequests, ops, callers, calls, lastReturn, transportCalls,
          autoFixCalls, created, aborted, defaultClient, localStorage>>

baseVars == <<skew, config, frozenUrls, dedupeRequests, retryOptions, created, aborted,
              defaultClient, localStorage>>

----------------------------------------------------------------------------
(* Bounds of the exploration *)

MaxTime == 3
MaxCalls == 3
MaxTransport == 3
MaxLog == 9
MaxSuggestLog == 15

(* Configuration values given to the constructor, in clock units *)

maxAge == 2
maxSize == 2
historyRetention == 3
backoffFactor == 1

Strategies == {"cache-first", "network-first", "stale-while-revalidate"}

----------------------------------------------------------------------------
(* Values *)

NoResult == [type |-> "none", src |-> "", n |-> 0, status |-> 0, text |-> ""]

\* the response the transport gives to its n-th GET
Response(n) == [type |-> "response", src |-> "transport", n |-> n, status |-> 200, text |-> "OK"]

\* the status that stands for axios' CanceledError: the request was aborted
\* through its signal, and the error carries no response
Canceled == -1

\* the error the transport gives to its n-th GET; status 0: no response at all
TransportError(n, status) == [type |-> "error", src |-> "transport", n |-> n, status |-> status, text |-> ""]

\* the TypeError of calling a method the client object does not have
NotAFunctionError == [type |-> "error", src |-> "runtime", n |-> 0, status |-> 0, text |-> "is not a function"]

DisabledError == [type |-> "error", src |-> "timeTravel", n |-> 0, status |-> 0, text |-> "Time Travel Fetch is not enabled"]
InvalidDateError == [type |-> "error", src |-> "timeTravel", n |-> 0, status |-> 0, text |-> "Invalid date format"]
NoHistoryError == [type |-> "error", src |-> "timeTravel", n |-> 0, status |-> 0, text |-> "No historical data available"]

\* the counters of a new client
NoStats == [hits |-> 0, misses |-> 0, ratio |-> <<0, 1>>, size |-> 0]

NoParams == <<>>
NoAt == <<>>
NaN == 0 - 1

\* a request config: params in insertion order, Authorization header, strategy,
\* autoFix function, at
Config(params, auth, strategy, autoFix, at) ==
  [params |-> params, auth |-> auth, strategy |-> strategy, autoFix |-> autoFix, at |-> at]

PlainConfig == Config(NoParams, "", "", "", NoAt)

----------------------------------------------------------------------------
(* Key derivation.  A string is a sequence of tokens, concatenation is \o. *)

ParamNames == <<"a", "b">>

ParamValue(params, name) ==
  (CHOOSE i \in 1..Len(params) : params[i][1] = name)

RECURSIVE URLSearchParams(_, _)
URLSearchParams(params, keys) ==
  IF keys = <<>> THEN <<>>
  ELSE LET k == Head(keys)
           v == params[ParamValue(params, k)][2]
           rest == URLSearchParams(params, Tail(keys))
       IN <<k, "=", v>> \o (IF rest = <<>> THEN <<>> ELSE <<"&">> \o rest)

\* Object.keys(config.params).sort()
sortedKeys(params) ==
  SelectSeq(ParamNames, LAMBDA k : \E i \in 1..Len(params) : params[i][1] = k)

\* a variant that takes the params in insertion order, without the sort
generateCacheKeyUnsorted(url, cfg) ==
  LET keys == [i \in 1..Len(cfg.params) |-> cfg.params[i][1]]
      paramsString == URLSearchParams(cfg.params, keys)
      withParams == IF paramsString # <<>> THEN url \o <<"?">> \o paramsString ELSE url
  IN IF cfg.auth # "" THEN withParams \o <<"|auth=", cfg.auth>> ELSE withParams

generateCacheKey(url, cfg) ==
  LET paramsString == URLSearchParams(cfg.params, sortedKeys(cfg.params))
      withParams == IF paramsString # <<>> THEN url \o <<"?">> \o paramsString ELSE url
  IN IF cfg.auth # "" THEN withParams \o <<"|auth=", cfg.auth>> ELSE withParams

RECURSIVE JSONstringify(_)
JSONstringify(params) ==
  IF params = <<>> THEN <<>>
  ELSE <<params[1][1], ":", params[1][2]>> \o
       (IF Len(params) > 1 THEN <<",">> ELSE <<>>) \o JSONstringify(Tail(params))

\* a variant that also separates requests by their Authorization header
generateDedupeCacheKeyWithAuth(url, cfg) ==
  LET key == IF cfg.params # NoParams
             THEN url \o <<"{">> \o JSONstringify(cfg.params) \o <<"}">>
             ELSE url
  IN <<"dedupe:">> \o key \o <<cfg.auth>>

generateDedupeCacheKey(url, cfg) ==
  LET key == IF cfg.params # NoParams
             THEN url \o <<"{">> \o JSONstringify(cfg.params) \o <<"}">>
             ELSE url
  IN <<"dedupe:">> \o key

----------------------------------------------------------------------------
(* The entry store: lru-cache with max = maxSize, ttl = maxAge, ttlAutopurge *)

IndexOf(c, key) ==
  IF \E i \in 1..Len(c) : c[i].key = key
  THEN CHOOSE i \in 1..Len(c) : c[i].key = key
  ELSE 0

RemoveAt(c, i) == SubSeq(c, 1, i - 1) \o SubSeq(c, i + 1, Len(c))

\* performance.now(), which lru-cache uses for its ttl
perfNow == now - skew

\* lru-cache: an entry is stale once its age on the monotonic clock exceeds the ttl
isStale(e) == (perfNow - e.start) > config.maxAge

\* a variant whose read leaves the recency order alone (lru-cache's peek)
LRUpeek(c, key) ==
  LET i == IndexOf(c, key) IN
  IF i = 0 THEN [value |-> <<>>, cache |-> c]
  ELSE IF isStale(c[i]) THEN [value |-> <<>>, cache |-> RemoveAt(c, i)]
  ELSE [value |-> <<c[i]>>, cache |-> c]

\* cache.get(key): a stale entry is deleted and not returned; a live one becomes
\* the most recently used.  value is <<>> (undefined) or <<entry>>.
LRUget(c, key) ==
  LET i == IndexOf(c, key) IN
  IF i = 0 THEN [value |-> <<>>, cache |-> c]
  ELSE IF isStale(c[i]) THEN [value |-> <<>>, cache |-> RemoveAt(c, i)]
  ELSE [value |-> <<c[i]>>, cache |-> Append(RemoveAt(c, i), c[i])]

\* cache.set(key, entry): replaces the key's entry, or evicts the least recently
\* used entry when the store is full
LRUset(c, key, entry) ==
  LET i == IndexOf(c, key) IN
  IF i # 0 THEN Append(RemoveAt(c, i), entry)
  ELSE IF Len(c) >= config.maxSize THEN Append(Tail(c), entry)
  ELSE Append(c, entry)

\* a variant that expires an entry as soon as its age reaches maxAge
isExpiredAtMaxAge(entry) == (now - entry.timestamp) >= config.maxAge

isExpired(entry) == (now - entry.timestamp) > config.maxAge

\* the entry cacheResponse builds, with the ttl start lru-cache records for it
Entry(key, response) ==
  [key |-> key, response |-> response, timestamp |-> now, start |-> perfNow]

cacheResponse(c, key, response) == LRUset(c, key, Entry(key, response))

----------------------------------------------------------------------------
(* History and auto-fix *)

historyOf(h, url) == IF url \in DOMAIN h THEN h[url] ELSE <<>>

MapSet(f, k, v) == [x \in DOMAIN f \cup {k} |-> IF x = k THEN v ELSE f[x]]
MapDelete(f, k) == [x \in DOMAIN f \ {k} |-> f[x]]

\* a variant that puts the new snapshot in front of the older ones
storeInHistoryFirst(h, url, response) ==
  IF ~config.enableTimeTravel THEN h
  ELSE MapSet(h, url, <<[timestamp |-> now, response |-> response]>> \o historyOf(h, url))

storeInHistory(h, url, response) ==
  IF ~config.enableTimeTravel THEN h
  ELSE MapSet(h, url, Append(historyOf(h, url), [timestamp |-> now, response |-> response]))

\* new Date(isoDateString).getTime()
DateParse(at) == IF at[1] = "iso" THEN at[2] ELSE NaN

Abs(x) == IF x < 0 THEN 0 - x ELSE x

\* a variant in which a later snapshot that is equally close replaces the best
RECURSIVE closestOrLater(_, _, _, _)
closestOrLater(history, targetDate, i, best) ==
  IF i > Len(history) THEN best
  ELSE IF Abs(targetDate - history[i].timestamp) <= Abs(targetDate - history[best].timestamp)
       THEN closestOrLater(history, targetDate, i + 1, i)
       ELSE closestOrLater(history, targetDate, i + 1, best)

RECURSIVE closest(_, _, _, _)
closest(history, targetDate, i, best) ==
  IF i > Len(history) THEN best
  ELSE IF Abs(targetDate - history[i].timestamp) < Abs(targetDate - history[best].timestamp)
       THEN closest(history, targetDate, i + 1, i)
       ELSE closest(history, targetDate, i + 1, best)

getHistoricalData(url, at) ==
  IF ~config.enableTimeTravel THEN DisabledError
  ELSE IF DateParse(at) = NaN THEN InvalidDateError
  ELSE LET history == historyOf(historyCache, url) IN
       IF Len(history) = 0 THEN NoHistoryError
       ELSE history[closest(history, DateParse(at), 2, 1)].response

\* the error a caller's autoFix function throws
FixerError == [type |-> "error", src |-> "autoFix", n |-> 0, status |-> 0, text |-> ""]

\* a variant that lets the error thrown by the autoFix function escape
tryAutoFixRethrow(error, url, autoFixFunction) ==
  CASE autoFixFunction = "value" ->
         [type |-> "response", src |-> "autoFix", n |-> 0, status |-> 200, text |-> "OK (Auto-Fixed)"]
    [] autoFixFunction = "throws" -> FixerError
    [] OTHER -> NoResult

\* tryAutoFix: the synthetic response around the value the function returns;
\* NoResult (null) when it returns null or throws, the throw being caught
tryAutoFix(error, url, autoFixFunction) ==
  CASE autoFixFunction = "value" ->
         [type |-> "response", src |-> "autoFix", n |-> 0, status |-> 200, text |-> "OK (Auto-Fixed)"]
    [] autoFixFunction = "throws" -> NoResult
    [] OTHER -> NoResult

----------------------------------------------------------------------------
(* The strategies.  Each operator gives the effect of the synchronous part  *)
(* of the call, up to the first await of the transport: the entry store     *)
(* after it, the counter increments, whether a transport GET is issued      *)
(* (fetch), whether a background refresh is started, and the response when  *)
(* the call is answered without the transport.                             *)

Effect(c, phase, key, hits, misses, fetch, refresh, log, outcome) ==
  [cache |-> c, phase |-> phase, key |-> key, hits |-> hits, misses |-> misses,
   fetch |-> fetch, refresh |-> refresh, log |-> log, outcome |-> outcome]

cacheFirstStrategy(c, cacheKey) ==
  LET cached == LRUget(c, cacheKey) IN
  IF cached.value # <<>> /\ ~isExpired(cached.value[1])
  THEN Effect(cached.cache, "cache-first", cacheKey, 1, 0, FALSE, FALSE, FALSE, cached.value[1].response)
  ELSE Effect(cached.cache, "cache-first", cacheKey, 0, 1, TRUE, FALSE, FALSE, NoResult)

\* a variant that answers from a fresh stored entry before trying the network
networkFirstStrategyCacheLookup(c, cacheKey) ==
  [cacheFirstStrategy(c, cacheKey) EXCEPT !.phase = "network-first"]

networkFirstStrategy(c, cacheKey) ==
  Effect(c, "network-first", cacheKey, 0, 0, TRUE, FALSE, FALSE, NoResult)

staleWhileRevalidateStrategy(c, cacheKey) ==
  LET cached == LRUget(c, cacheKey) IN
  IF cached.value # <<>>
  THEN Effect(cached.cache, "stale-while-revalidate", cacheKey, 1, 0, FALSE,
              isExpired(cached.value[1]), FALSE, cached.value[1].response)
  ELSE Effect(cached.cache, "stale-while-revalidate", cacheKey, 0, 1, TRUE, FALSE, FALSE, NoResult)

handleRequest(c, url, cfg) ==
  LET strategy == IF cfg.strategy # "" THEN cfg.strategy ELSE config.strategy
      cacheKey == generateCacheKey(url, cfg)
  IN CASE strategy = "network-first" -> networkFirstStrategy(c, cacheKey)
       [] strategy = "stale-while-revalidate" -> staleWhileRevalidateStrategy(c, cacheKey)
       [] OTHER -> cacheFirstStrategy(c, cacheKey)

\* a variant that takes a URL for frozen when the freeze overlay holds it
getFrozenByOverlay(url, cfg) ==
  LET cacheKey == generateCacheKey(url, cfg)
      cached == IF url \in DOMAIN freezeCache THEN LRUget(cache, cacheKey)
                ELSE [value |-> <<>>, cache |-> cache]
  IN IF cached.value # <<>>
     THEN Effect(cached.cache, "frozen", cacheKey, 1, 0, FALSE, FALSE, FALSE, cached.value[1].response)
     ELSE IF cfg.at # NoAt /\ config.enableTimeTravel
     THEN Effect(cached.cache, "time-travel", cacheKey, 0, 0, FALSE, FALSE, FALSE,
                 getHistoricalData(url, cfg.at))
     ELSE [handleRequest(cached.cache, url, cfg) EXCEPT !.log = config.enableIntelligencePanel]

\* Fetchless.get
get(url, cfg) ==
  LET cacheKey == generateCacheKey(url, cfg)
      cached == IF url \in frozenUrls THEN LRUget(cache, cacheKey)
                ELSE [value |-> <<>>, cache |-> cache]
  IN IF cached.value # <<>>
     THEN Effect(cached.cache, "frozen", cacheKey, 1, 0, FALSE, FALSE, FALSE, cached.value[1].response)
     ELSE IF cfg.at # NoAt /\ config.enableTimeTravel
     THEN Effect(cached.cache, "time-travel", cacheKey, 0, 0, FALSE, FALSE, FALSE,
                 getHistoricalData(url, cfg.at))
     ELSE [handleRequest(cached.cache, url, cfg) EXCEPT !.log = config.enableIntelligencePanel]

\* a variant that records the last successful response under the cache key
FetchSucceededKeyedByCacheKey(o) ==
  LET response == Response(o.call) IN
  [cache |-> cacheResponse(cache, o.key, response),
   last |-> MapSet(lastSuccessfulResponses, o.key, response),
   history |-> storeInHistory(historyCache, o.url, response),
   outcome |-> response]

\* what the continuation after a successful transport GET does, in all three
\* strategies and in refreshCache
FetchSucceeded(o) ==
  LET response == Response(o.call) IN
  [cache |-> cacheResponse(cache, o.key, response),
   last |-> MapSet(lastSuccessfulResponses, o.url, response),
   history |-> storeInHistory(historyCache, o.url, response),
   outcome |-> response]

\* a variant that stores the auto-fixed response under the key
FetchFailedStoringFix(o, status) ==
  LET error == TransportError(o.call, status)
      fixed == IF o.cfg.autoFix # "" THEN tryAutoFix(error, o.url, o.cfg.autoFix) ELSE NoResult
      fixCalls == IF o.cfg.autoFix # "" THEN 1 ELSE 0
      cached == LRUget(cache, o.key)
  IN CASE o.phase = "refresh" ->
            [cache |-> cache, hits |-> 0, misses |-> 0, fixCalls |-> 0, outcome |-> NoResult]
       [] fixed # NoResult ->
            [cache |-> cacheResponse(cache, o.key, fixed), hits |-> 0, misses |-> 0,
             fixCalls |-> fixCalls, outcome |-> fixed]
       [] o.phase = "network-first" /\ cached.value # <<>> ->
            [cache |-> cached.cache, hits |-> 1, misses |-> 0, fixCalls |-> fixCalls,
             outcome |-> cached.value[1].response]
       [] o.phase = "network-first" ->
            [cache |-> cached.cache, hits |-> 0, misses |-> 1, fixCalls |-> fixCalls,
             outcome |-> error]
       [] OTHER ->
            [cache |-> cache, hits |-> 0, misses |-> 0, fixCalls |-> fixCalls, outcome |-> error]

\* a variant that drops the key's entry when no repair is possible
FetchFailedDroppingEntry(o, status) ==
  LET error == TransportError(o.call, status)
      fixed == IF o.cfg.autoFix # "" THEN tryAutoFix(error, o.url, o.cfg.autoFix) ELSE NoResult
      fixCalls == IF o.cfg.autoFix # "" THEN 1 ELSE 0
      cached == LRUget(cache, o.key)
      dropped == IF IndexOf(cache, o.key) # 0 THEN RemoveAt(cache, IndexOf(cache, o.key))
                 ELSE cache
  IN CASE o.phase = "refresh" ->
            [cache |-> cache, hits |-> 0, misses |-> 0, fixCalls |-> 0, outcome |-> NoResult]
       [] fixed # NoResult ->
            [cache |-> cache, hits |-> 0, misses |-> 0, fixCalls |-> fixCalls, outcome |-> fixed]
       [] o.phase = "network-first" /\ cached.value # <<>> ->
            [cache |-> cached.cache, hits |-> 1, misses |-> 0, fixCalls |-> fixCalls,
             outcome |-> cached.value[1].response]
       [] o.phase = "network-first" ->
            [cache |-> cached.cache, hits |-> 0, misses |-> 1, fixCalls |-> fixCalls,
             outcome |-> error]
       [] OTHER ->
            [cache |-> dropped, hits |-> 0, misses |-> 0, fixCalls |-> fixCalls, outcome |-> error]

\* a variant in which a failed background refresh invalidates the key's entry
FetchFailedRefreshInvalidates(o, status) ==
  LET error == TransportError(o.call, status)
      fixed == IF o.cfg.autoFix # "" THEN tryAutoFix(error, o.url, o.cfg.autoFix) ELSE NoResult
      fixCalls == IF o.cfg.autoFix # "" THEN 1 ELSE 0
      cached == LRUget(cache, o.key)
      dropped == IF IndexOf(cache, o.key) # 0 THEN RemoveAt(cache, IndexOf(cache, o.key))
                 ELSE cache
  IN CASE o.phase = "refresh" ->
            [cache |-> dropped, hits |-> 0, misses |-> 0, fixCalls |-> 0, outcome |-> NoResult]
       [] fixed # NoResult ->
            [cache |-> cache, hits |-> 0, misses |-> 0, fixCalls |-> fixCalls, outcome |-> fixed]
       [] o.phase = "network-first" /\ cached.value # <<>> ->
            [cache |-> cached.cache, hits |-> 1, misses |-> 0, fixCalls |-> fixCalls,
             outcome |-> cached.value[1].response]
       [] o.phase = "network-first" ->
            [cache |-> cached.cache, hits |-> 0, misses |-> 1, fixCalls |-> fixCalls,
             outcome |-> error]
       [] OTHER ->
            [cache |-> cache, hits |-> 0, misses |-> 0, fixCalls |-> fixCalls, outcome |-> error]

\* what the catch block after a failed transport GET does
FetchFailed(o, status) ==
  LET error == TransportError(o.call, status)
      fixed == IF o.cfg.autoFix # "" THEN tryAutoFix(error, o.url, o.cfg.autoFix) ELSE NoResult
      fixCalls == IF o.cfg.autoFix # "" THEN 1 ELSE 0
      cached == LRUget(cache, o.key)
  IN CASE o.phase = "refresh" ->
            [cache |-> cache, hits |-> 0, misses |-> 0, fixCalls |-> 0, outcome |-> NoResult]
       [] o.phase = "network-first" ->
            IF fixed # NoResult
            THEN [cache |-> cache, hits |-> 0, misses |-> 0, fixCalls |-> fixCalls, outcome |-> fixed]
            ELSE IF cached.value # <<>>
            THEN [cache |-> cached.cache, hits |-> 1, misses |-> 0, fixCalls |-> fixCalls,
                  outcome |-> cached.value[1].response]
            ELSE [cache |-> cached.cache, hits |-> 0, misses |-> 1, fixCalls |-> fixCalls,
                  outcome |-> error]
       [] OTHER ->
            [cache |-> cache, hits |-> 0, misses |-> 0, fixCalls |-> fixCalls,
             outcome |-> IF fixed # NoResult THEN fixed ELSE error]

----------------------------------------------------------------------------
(* Request intelligence *)

\* the entry logRequest pushes; component "" stands for undefined (get found no
\* component name in its stack trace)
LogEntry(url, component) == [url |-> url, timestamp |-> now, component |-> component]

\* the position of url in the Map urlCounts, 0 when it has no entry yet
MapIndex(m, url) ==
  IF \E i \in 1..Len(m) : m[i].url = url
  THEN CHOOSE i \in 1..Len(m) : m[i].url = url
  ELSE 0

\* the Set components after add(component)
SetAdd(set, component) ==
  IF \E i \in 1..Len(set) : set[i] = component THEN set ELSE Append(set, component)

\* the Map that the forEach over the log builds, in insertion order
RECURSIVE urlCounts(_)
urlCounts(log) ==
  IF log = <<>> THEN <<>>
  ELSE LET m == urlCounts(SubSeq(log, 1, Len(log) - 1))
           entry == log[Len(log)]
           i == MapIndex(m, entry.url)
           current == IF i # 0 THEN m[i] ELSE [url |-> entry.url, count |-> 0, components |-> <<>>]
           updated == [current EXCEPT !.count = current.count + 1,
                                      !.components = IF entry.component # ""
                                                     THEN SetAdd(current.components, entry.component)
                                                     ELSE current.components]
       IN IF i # 0 THEN [m EXCEPT ![i] = updated] ELSE Append(m, updated)

\* Array.prototype.sort((a, b) => b.count - a.count): stable, count descending
RECURSIVE sortByCount(_)
sortByCount(list) ==
  IF list = <<>> THEN <<>>
  ELSE LET sorted == sortByCount(SubSeq(list, 1, Len(list) - 1))
           x == list[Len(list)]
           before == SelectSeq(sorted, LAMBDA y : y.count >= x.count)
           after == SelectSeq(sorted, LAMBDA y : y.count < x.count)
       IN before \o <<x>> \o after

\* a variant that already reports a URL logged 3 times
detectDuplicatesFromThree(log) ==
  sortByCount(SelectSeq(urlCounts(log), LAMBDA stats_ : stats_.count >= 3))

\* intelligence.detectDuplicates()
detectDuplicates(log) ==
  sortByCount(SelectSeq(urlCounts(log), LAMBDA stats_ : stats_.count > 3))

\* String.prototype.split('?')[0]: the part of the URL before its first "?"
urlBaseOf(url) ==
  IF \E i \in 1..Len(url) : url[i] = "?"
  THEN SubSeq(url, 1, (CHOOSE i \in 1..Len(url) :
                         url[i] = "?" /\ \A j \in 1..(i - 1) : url[j] # "?") - 1)
  ELSE url

\* the Map urlsBySimilarity that the first forEach over the duplicates builds,
\* in insertion order
RECURSIVE urlsBySimilarity(_)
urlsBySimilarity(duplicates) ==
  IF duplicates = <<>> THEN <<>>
  ELSE LET m == urlsBySimilarity(SubSeq(duplicates, 1, Len(duplicates) - 1))
           dup == duplicates[Len(duplicates)]
           urlBase == urlBaseOf(dup.url)
           i == IF \E n \in 1..Len(m) : m[n].urlBase = urlBase
                THEN CHOOSE n \in 1..Len(m) : m[n].urlBase = urlBase
                ELSE 0
       IN IF i # 0 THEN [m EXCEPT ![i].urls = Append(@, dup.url)]
          ELSE Append(m, [urlBase |-> urlBase, urls |-> <<dup.url>>])

\* the suggestions pushed by the forEach over urlsBySimilarity; the text of a
\* suggestion is kept as its kind and the values inserted into it
GroupSuggestions(similar) ==
  LET shared == SelectSeq(similar, LAMBDA s : Len(s.urls) > 1) IN
  [i \in 1..Len(shared) |->
     [suggestion |-> <<"group", Len(shared[i].urls), shared[i].urlBase>>,
      urls |-> shared[i].urls]]

\* the suggestions pushed by the second forEach over the duplicates
CacheSuggestions(duplicates, threshold) ==
  LET frequent == SelectSeq(duplicates, LAMBDA dup : dup.count > threshold) IN
  [i \in 1..Len(frequent) |->
     [suggestion |-> <<"cache", frequent[i].count>>, urls |-> <<frequent[i].url>>]]

\* a variant that suggests a longer cache duration from 10 calls on
suggestOptimizationsFromTen(log) ==
  LET duplicates == detectDuplicates(log) IN
  GroupSuggestions(urlsBySimilarity(duplicates)) \o CacheSuggestions(duplicates, 9)

\* intelligence.suggestOptimizations()
suggestOptimizations(log) ==
  LET duplicates == detectDuplicates(log) IN
  GroupSuggestions(urlsBySimilarity(duplicates)) \o CacheSuggestions(duplicates, 10)

\* intelligence.logRequest(url, component)
logRequest(url, component) ==
  /\ requestLog' = Append(requestLog, LogEntry(url, component))
  /\ UNCHANGED <<now, baseVars, cache, stats, freezeCache, historyCache,
                 lastSuccessfulResponses, pendingRequests, ops, callers, calls, lastReturn,
                 transportCalls, autoFixCalls>>

----------------------------------------------------------------------------
(* Operations in progress *)

\* the promise of one get operation: a Fetchless.get (layer "base") or an
\* executeGetWithRetry chain (layer "advanced"), started by get number id.
\* direct: the get returns this promise itself, so it settles with it.
Op(id, layer, direct, url, cfg, e, attempt, call) ==
  [id |-> id, layer |-> layer, direct |-> direct, url |-> url, cfg |-> cfg, key |-> e.key,
   phase |-> e.phase, attempt |-> attempt, state |-> IF e.fetch THEN "fetching" ELSE "settled",
   call |-> IF e.fetch THEN call ELSE 0, due |-> 0, outcome |-> e.outcome]

\* the detached promise of refreshCache
RefreshOp(url, cfg, key, call) ==
  [id |-> 0, layer |-> "base", direct |-> FALSE, url |-> url, cfg |-> cfg, key |-> key,
   phase |-> "refresh", attempt |-> 0, state |-> "fetching", call |-> call, due |-> 0,
   outcome |-> NoResult]

\* get number id awaits operation op: as the get that started it ("orig") or as
\* one that found it pending ("join")
Caller(id, op, role, dkey) == [id |-> id, op |-> op, role |-> role, dkey |-> dkey]

Return(id, result) == [call |-> id, result |-> result]

InFlight(key) == {o \in ops : o.state = "fetching" /\ o.key = key}

\* the operations once operation o has become new: a settled operation nobody
\* awaits any more is dropped
Replace(o, new) ==
  IF new.state = "settled" /\ (new.direct \/ new.phase = "refresh")
  THEN ops \ {o}
  ELSE (ops \ {o}) \cup {new}

\* what the get that returned operation o's promise itself receives
Returned(o, new) ==
  IF new.state = "settled" /\ new.direct THEN Return(new.id, new.outcome) ELSE lastReturn

URLs == {<<"u1">>, <<"u2">>}

----------------------------------------------------------------------------
(* Actions of a Fetchless client *)

\* client.get(url, cfg)
Get(url, cfg) ==
  LET e == get(url, cfg)
      issued == IF e.fetch \/ e.refresh THEN 1 ELSE 0
      op == Op(calls + 1, "base", TRUE, url, cfg, e, 0, transportCalls + 1)
  IN /\ calls < MaxCalls
     /\ transportCalls + issued <= MaxTransport
     /\ calls' = calls + 1
     /\ cache' = e.cache
     /\ stats' = [stats EXCEPT !.hits = @ + e.hits, !.misses = @ + e.misses]
     /\ requestLog' = IF e.log THEN Append(requestLog, LogEntry(url, ""))
                      ELSE requestLog
     /\ ops' = (IF e.fetch THEN ops \cup {op} ELSE ops) \cup
               (IF e.refresh THEN {RefreshOp(url, cfg, e.key, transportCalls + 1)} ELSE {})
     /\ lastReturn' = IF e.fetch THEN lastReturn ELSE Return(calls + 1, e.outcome)
     /\ transportCalls' = transportCalls + issued
     /\ UNCHANGED <<now, baseVars, freezeCache, historyCache, lastSuccessfulResponses,
                    pendingRequests, callers, autoFixCalls>>

\* a variant in which a completed background refresh counts as a miss
TransportSucceedCountingRefresh(o) ==
  LET s == FetchSucceeded(o)
      new == [o EXCEPT !.state = "settled",
                       !.outcome = IF o.phase = "refresh" THEN NoResult ELSE s.outcome]
  IN /\ o \in ops
     /\ o.state = "fetching"
     /\ o.id \notin aborted
     /\ cache' = s.cache
     /\ lastSuccessfulResponses' = s.last
     /\ historyCache' = s.history
     /\ ops' = Replace(o, new)
     /\ lastReturn' = Returned(o, new)
     /\ stats' = IF o.phase = "refresh" THEN [stats EXCEPT !.misses = @ + 1] ELSE stats
     /\ UNCHANGED <<now, baseVars, freezeCache, requestLog, pendingRequests, callers,
                    calls, transportCalls, autoFixCalls>>

\* the transport answers the GET of operation o with a response
TransportSucceed(o) ==
  LET s == FetchSucceeded(o)
      new == [o EXCEPT !.state = "settled",
                       !.outcome = IF o.phase = "refresh" THEN NoResult ELSE s.outcome]
  IN /\ o \in ops
     /\ o.state = "fetching"
     /\ o.id \notin aborted
     /\ cache' = s.cache
     /\ lastSuccessfulResponses' = s.last
     /\ historyCache' = s.history
     /\ ops' = Replace(o, new)
     /\ lastReturn' = Returned(o, new)
     /\ UNCHANGED <<now, baseVars, stats, freezeCache, requestLog, pendingRequests, callers,
                    calls, transportCalls, autoFixCalls>>

\* a variant of post that drops the stored entry of the URL it writes to
postInvalidating(url) ==
  /\ transportCalls < MaxTransport
  /\ transportCalls' = transportCalls + 1
  /\ cache' = IF IndexOf(cache, url) # 0 THEN RemoveAt(cache, IndexOf(cache, url)) ELSE cache
  /\ UNCHANGED <<now, baseVars, stats, freezeCache, historyCache, lastSuccessfulResponses,
                 requestLog, pendingRequests, ops, callers, calls, lastReturn, autoFixCalls>>

\* client.post(url, data): returns the promise of axiosInstance.post
post(url) ==
  /\ transportCalls < MaxTransport
  /\ transportCalls' = transportCalls + 1
  /\ UNCHANGED <<now, baseVars, cache, stats, freezeCache, historyCache,
                 lastSuccessfulResponses, requestLog, pendingRequests, ops, callers, calls,
                 lastReturn, autoFixCalls>>

\* client.put(url, data): returns the promise of axiosInstance.put
put(url) ==
  /\ transportCalls < MaxTransport
  /\ transportCalls' = transportCalls + 1
  /\ UNCHANGED <<now, baseVars, cache, stats, freezeCache, historyCache,
                 lastSuccessfulResponses, requestLog, pendingRequests, ops, callers, calls,
                 lastReturn, autoFixCalls>>

\* client.delete(url): returns the promise of axiosInstance.delete
delete(url) ==
  /\ transportCalls < MaxTransport
  /\ transportCalls' = transportCalls + 1
  /\ UNCHANGED <<now, baseVars, cache, stats, freezeCache, historyCache,
                 lastSuccessfulResponses, requestLog, pendingRequests, ops, callers, calls,
                 lastReturn, autoFixCalls>>

\* a variant that writes the overlay entry whether or not a value was found
freezeAlways(url) ==
  LET cachedData == LRUget(cache, url) IN
  /\ cache' = cachedData.cache
  /\ freezeCache' = MapSet(freezeCache, url, cachedData.value)
  /\ UNCHANGED <<now, baseVars, stats, historyCache, lastSuccessfulResponses, requestLog,
                 pendingRequests, ops, callers, calls, lastReturn, transportCalls,
                 autoFixCalls>>

\* client.freeze(url)
freeze(url) ==
  LET cachedData == LRUget(cache, url) IN
  /\ cache' = cachedData.cache
  /\ freezeCache' = IF cachedData.value # <<>> THEN MapSet(freezeCache, url, cachedData.value[1])
                    ELSE freezeCache
  /\ UNCHANGED <<now, baseVars, stats, historyCache, lastSuccessfulResponses, requestLog,
                 pendingRequests, ops, callers, calls, lastReturn, transportCalls,
                 autoFixCalls>>

\* client.unfreeze(url)
unfreeze(url) ==
  /\ freezeCache' = IF url \in DOMAIN freezeCache THEN MapDelete(freezeCache, url)
                    ELSE freezeCache
  /\ UNCHANGED <<now, baseVars, cache, stats, historyCache, lastSuccessfulResponses, requestLog,
                 pendingRequests, ops, callers, calls, lastReturn, transportCalls,
                 autoFixCalls>>

\* client.unfreezeAll(): the class defines freeze and unfreeze only, so the call
\* throws a TypeError, recorded as the result of the last call
unfreezeAll ==
  /\ lastReturn' = Return(0, NotAFunctionError)
  /\ UNCHANGED <<now, baseVars, cache, stats, freezeCache, historyCache,
                 lastSuccessfulResponses, requestLog, pendingRequests, ops, callers, calls,
                 transportCalls, autoFixCalls>>

\* hits / total as a fraction <<numerator, denominator>>; 0 is <<0, 1>>
Ratio(hits, total) == IF total > 0 THEN <<hits, total>> ELSE <<0, 1>>

\* a variant that reports the size field as it was last written
getStatsStoredSize ==
  /\ stats' = [stats EXCEPT !.ratio = Ratio(stats.hits, stats.hits + stats.misses)]
  /\ UNCHANGED <<now, baseVars, cache, freezeCache, historyCache, lastSuccessfulResponses,
                 requestLog, pendingRequests, ops, callers, calls, lastReturn, transportCalls,
                 autoFixCalls>>

\* client.getStats(): writes size and ratio into this.stats and returns a copy
\* of it, so the value returned is stats'
getStats ==
  /\ stats' = [stats EXCEPT !.size = Len(cache),
                            !.ratio = Ratio(stats.hits, stats.hits + stats.misses)]
  /\ UNCHANGED <<now, baseVars, cache, freezeCache, historyCache, lastSuccessfulResponses,
                 requestLog, pendingRequests, ops, callers, calls, lastReturn, transportCalls,
                 autoFixCalls>>

\* client.clearCache()
clearCache ==
  /\ cache' = <<>>
  /\ stats' = [stats EXCEPT !.size = 0]
  /\ UNCHANGED <<now, baseVars, freezeCache, historyCache, lastSuccessfulResponses,
                 requestLog, pendingRequests, ops, callers, calls, lastReturn, transportCalls,
                 autoFixCalls>>

\* the daily timer the constructor sets when time travel is enabled fires:
\* cleanupHistory()
cleanupHistory ==
  LET kept(url) == SelectSeq(historyCache[url],
                             LAMBDA entry : (now - entry.timestamp) < historyRetention)
      urls == {url \in DOMAIN historyCache : kept(url) # <<>>}
  IN /\ config.enableTimeTravel
     /\ historyCache' = [url \in urls |-> kept(url)]
     /\ UNCHANGED <<now, baseVars, cache, stats, freezeCache, lastSuccessfulResponses,
                    requestLog, pendingRequests, ops, callers, calls, lastReturn,
                    transportCalls, autoFixCalls>>

\* the clock advances
Tick ==
  /\ now < MaxTime
  /\ now' = now + 1
  /\ UNCHANGED <<baseVars, cache, stats, freezeCache, historyCache, lastSuccessfulResponses,
                 requestLog, pendingRequests, ops, callers, calls, lastReturn, transportCalls,
                 autoFixCalls>>

\* the wall clock is set forward (or the machine resumes from sleep) while the
\* monotonic clock stands still
ClockStep ==
  /\ now < MaxTime
  /\ now' = now + 1
  /\ skew' = skew + 1
  /\ UNCHANGED <<config, frozenUrls, dedupeRequests, retryOptions, created, aborted,
                 defaultClient, localStorage, cache, stats, freezeCache, historyCache, lastSuccessfulResponses, requestLog, pendingRequests, ops,
                 callers, calls, lastReturn, transportCalls, autoFixCalls>>

\* lru-cache's purge timer of a stale entry fires
ttlAutopurge(i) ==
  /\ i \in 1..Len(cache)
  /\ isStale(cache[i])
  /\ cache' = RemoveAt(cache, i)
  /\ UNCHANGED <<now, baseVars, stats, freezeCache, historyCache, lastSuccessfulResponses,
                 requestLog, pendingRequests, ops, callers, calls, lastReturn, transportCalls,
                 autoFixCalls>>

\* new Fetchless(cfg): the configuration the constructor derives from the
\* partial one it is given; "", 0 and FALSE stand for a field left out
constructor(cfg) ==
  [strategy |-> IF cfg.strategy # "" THEN cfg.strategy ELSE "cache-first",
   maxAge |-> IF cfg.maxAge # 0 THEN cfg.maxAge ELSE maxAge,
   maxSize |-> IF cfg.maxSize # 0 THEN cfg.maxSize ELSE maxSize,
   enableTimeTravel |-> cfg.enableTimeTravel,
   enableIntelligencePanel |-> cfg.enableIntelligencePanel]

\* the static field Fetchless.instance: 0 while undefined, else the one client
\* object (number 1), whose fields are the variables of this module
instance == IF created = <<>> THEN 0 ELSE created[1].client

\* Fetchless.createClient(cfg)
createClient(cfg) ==
  /\ Len(created) < MaxCalls
  /\ config' = IF instance = 0 THEN constructor(cfg) ELSE config
  /\ created' = Append(created, [config |-> cfg, client |-> IF instance = 0 THEN 1 ELSE instance])
  /\ UNCHANGED <<now, skew, frozenUrls, dedupeRequests, retryOptions, aborted, defaultClient,
                 localStorage, cache, stats, freezeCache, historyCache, lastSuccessfulResponses, requestLog,
                 pendingRequests, ops, callers, calls, lastReturn, transportCalls,
                 autoFixCalls>>

----------------------------------------------------------------------------
(* Retry and deduplication of AdvancedFetchless *)

retryStatusCodes == {408, 429, 500, 502, 503, 504}

RECURSIVE Pow2(_)
Pow2(n) == IF n = 0 THEN 1 ELSE 2 * Pow2(n - 1)

\* executeGetWithRetry once super.get has settled with outcome: another attempt
\* after the backoff delay, or the promise settles
afterAttempt(o, outcome) ==
  IF /\ o.layer = "advanced"
     /\ outcome.type = "error"
     /\ o.attempt < (IF retryOptions.maxRetries # 0 THEN retryOptions.maxRetries ELSE 3)
     /\ (outcome.status \in {0, Canceled} \/ outcome.status \in retryOptions.retryStatusCodes)
  THEN [o EXCEPT !.state = "backoff",
                 !.due = now + (IF retryOptions.backoffFactor # 0
                                THEN retryOptions.backoffFactor ELSE 300) * Pow2(o.attempt),
                 !.outcome = NoResult]
  ELSE [o EXCEPT !.state = "settled", !.outcome = outcome]

\* the transport answers the GET of operation o with an error
TransportFail(o, status) ==
  LET f == FetchFailed(o, status)
      new == IF o.phase = "refresh" THEN [o EXCEPT !.state = "settled"]
             ELSE afterAttempt(o, f.outcome)
  IN /\ o \in ops
     /\ o.state = "fetching"
     /\ (o.id \in aborted) = (status = Canceled)
     /\ cache' = f.cache
     /\ stats' = [stats EXCEPT !.hits = @ + f.hits, !.misses = @ + f.misses]
     /\ autoFixCalls' = autoFixCalls + f.fixCalls
     /\ ops' = Replace(o, new)
     /\ lastReturn' = Returned(o, new)
     /\ UNCHANGED <<now, baseVars, freezeCache, historyCache, lastSuccessfulResponses,
                    requestLog, pendingRequests, callers, calls, transportCalls>>

\* advancedClient.get(url, cfg); no interceptor is installed
AdvGet(url, cfg) ==
  LET cacheKey == generateDedupeCacheKey(url, cfg)
      e == get(url, cfg)
      issued == IF e.fetch \/ e.refresh THEN 1 ELSE 0
      o == Op(calls + 1, "advanced", ~dedupeRequests, url, cfg, e, 0, transportCalls + 1)
      op == IF e.fetch THEN o ELSE afterAttempt(o, e.outcome)
  IN /\ calls < MaxCalls
     /\ calls' = calls + 1
     /\ IF dedupeRequests /\ cacheKey \in DOMAIN pendingRequests
        THEN /\ callers' = callers \cup
                             {Caller(calls + 1, pendingRequests[cacheKey], "join", cacheKey)}
             /\ UNCHANGED <<cache, stats, requestLog, ops, pendingRequests, lastReturn,
                            transportCalls>>
        ELSE /\ transportCalls + issued <= MaxTransport
             /\ cache' = e.cache
             /\ stats' = [stats EXCEPT !.hits = @ + e.hits, !.misses = @ + e.misses]
             /\ requestLog' = IF e.log THEN Append(requestLog, LogEntry(url, ""))
                              ELSE requestLog
             /\ ops' = (IF op.state = "settled" /\ op.direct THEN ops ELSE ops \cup {op}) \cup
                       (IF e.refresh THEN {RefreshOp(url, cfg, e.key, transportCalls + 1)}
                        ELSE {})
             /\ lastReturn' = IF op.state = "settled" /\ op.direct
                              THEN Return(op.id, op.outcome) ELSE lastReturn
             /\ transportCalls' = transportCalls + issued
             /\ pendingRequests' = IF dedupeRequests
                                   THEN MapSet(pendingRequests, cacheKey, calls + 1)
                                   ELSE pendingRequests
             /\ callers' = IF dedupeRequests
                           THEN callers \cup {Caller(calls + 1, calls + 1, "orig", cacheKey)}
                           ELSE callers
     /\ UNCHANGED <<now, baseVars, freezeCache, historyCache, lastSuccessfulResponses,
                    autoFixCalls>>

\* the backoff timer of operation o fires: executeGetWithRetry(url, config, attempt + 1)
RetryFire(o) ==
  LET e == get(o.url, o.cfg)
      issued == IF e.fetch \/ e.refresh THEN 1 ELSE 0
      n == Op(o.id, "advanced", o.direct, o.url, o.cfg, e, o.attempt + 1, transportCalls + 1)
      new == IF e.fetch THEN n ELSE afterAttempt(n, e.outcome)
  IN /\ o \in ops
     /\ o.state = "backoff"
     /\ now >= o.due
     /\ transportCalls + issued <= MaxTransport
     /\ cache' = e.cache
     /\ stats' = [stats EXCEPT !.hits = @ + e.hits, !.misses = @ + e.misses]
     /\ requestLog' = IF e.log THEN Append(requestLog, LogEntry(o.url, ""))
                      ELSE requestLog
     /\ ops' = Replace(o, new) \cup
               (IF e.refresh THEN {RefreshOp(o.url, o.cfg, e.key, transportCalls + 1)} ELSE {})
     /\ lastReturn' = Returned(o, new)
     /\ transportCalls' = transportCalls + issued
     /\ UNCHANGED <<now, baseVars, freezeCache, historyCache, lastSuccessfulResponses,
                    pendingRequests, callers, calls, autoFixCalls>>

\* the abort() that abortableGet returned for get number id is called while the
\* operation the get started, or the pending operation it was handed, awaits
\* the transport or its backoff timer.  The signal of get number id is in the
\* config of the operation that get started, and in no other.
abort(id) ==
  /\ id \notin aborted
  /\ \/ \E o \in ops : o.id = id /\ o.layer = "advanced" /\ o.state \in {"fetching", "backoff"}
     \/ \E c \in callers : /\ c.id = id
                            /\ c.role = "join"
                            /\ \E o \in ops : o.id = c.op /\ o.state \in {"fetching", "backoff"}
  /\ aborted' = aborted \cup {id}
  /\ UNCHANGED <<now, skew, config, frozenUrls, dedupeRequests, retryOptions, created,
                 defaultClient, localStorage, cache, stats, freezeCache, historyCache, lastSuccessfulResponses, requestLog,
                 pendingRequests, ops, callers, calls, lastReturn, transportCalls,
                 autoFixCalls>>

\* the operation that get c awaits
OpOf(c) == CHOOSE o \in ops : o.id = c.op

\* the operations once get c has received its outcome
Release(c) ==
  IF \E d \in callers \ {c} : d.op = c.op THEN ops ELSE ops \ {OpOf(c)}

\* the originating get resumes after `await requestPromise`: its finally block
\* deletes the pending registration, then the caller receives the outcome
Finally(c) ==
  /\ c \in callers
  /\ c.role = "orig"
  /\ OpOf(c).state = "settled"
  /\ pendingRequests' = MapDelete(pendingRequests, c.dkey)
  /\ callers' = callers \ {c}
  /\ ops' = Release(c)
  /\ lastReturn' = Return(c.id, OpOf(c).outcome)
  /\ UNCHANGED <<now, baseVars, cache, stats, freezeCache, historyCache,
                 lastSuccessfulResponses, requestLog, calls, transportCalls, autoFixCalls>>

\* a get that returned the pending promise receives its outcome; the reaction
\* of the originating get was registered first and has run before
Deliver(c) ==
  /\ c \in callers
  /\ c.role = "join"
  /\ OpOf(c).state = "settled"
  /\ ~\E d \in callers : d.op = c.op /\ d.role = "orig"
  /\ callers' = callers \ {c}
  /\ ops' = Release(c)
  /\ lastReturn' = Return(c.id, OpOf(c).outcome)
  /\ UNCHANGED <<now, baseVars, cache, stats, freezeCache, historyCache,
                 lastSuccessfulResponses, requestLog, pendingRequests, calls, transportCalls,
                 autoFixCalls>>

----------------------------------------------------------------------------
(* The package module: its two default clients and the functions it exports *)

\* the fields of a client object other than the one the variables above hold
NewClient(cfg) ==
  [config |-> constructor(cfg), cache |-> <<>>, stats |-> NoStats, frozenUrls |-> {},
   historyCache |-> <<>>, lastSuccessfulResponses |-> <<>>, requestLog |-> <<>>, ops |-> {}]

\* what the package module passes to Fetchless.createClient for defaultClient
DefaultClientConfig ==
  [strategy |-> "", maxAge |-> 0, maxSize |-> 0, enableTimeTravel |-> TRUE,
   enableIntelligencePanel |-> TRUE]

\* the package-level prefetch(url): defaultAdvancedClient.prefetch(url), which
\* calls this.get(url) and hands the promise to its own then and catch
\* handlers.  defaultAdvancedClient is the client the variables above hold;
\* lastReturn is what those handlers receive.
prefetch(url) == AdvGet(url, PlainConfig)

\* the package-level get(url): defaultClient.get(url, undefined).  Both default
\* clients have the default maxAge and maxSize.
packageGet(url) ==
  LET d == defaultClient
      cfg == [PlainConfig EXCEPT !.strategy = d.config.strategy]
      cacheKey == generateCacheKey(url, cfg)
      cached == IF url \in d.frozenUrls THEN LRUget(d.cache, cacheKey)
                ELSE [value |-> <<>>, cache |-> d.cache]
      e == IF cached.value # <<>>
           THEN Effect(cached.cache, "frozen", cacheKey, 1, 0, FALSE, FALSE, FALSE,
                       cached.value[1].response)
           ELSE [handleRequest(cached.cache, url, cfg)
                   EXCEPT !.log = d.config.enableIntelligencePanel]
      issued == IF e.fetch \/ e.refresh THEN 1 ELSE 0
      op == Op(calls + 1, "base", TRUE, url, cfg, e, 0, transportCalls + 1)
  IN /\ calls < MaxCalls
     /\ transportCalls + issued <= MaxTransport
     /\ calls' = calls + 1
     /\ transportCalls' = transportCalls + issued
     /\ defaultClient' =
          [d EXCEPT !.cache = e.cache,
                    !.stats = [@ EXCEPT !.hits = @ + e.hits, !.misses = @ + e.misses],
                    !.requestLog = IF e.log THEN Append(@, LogEntry(url, "")) ELSE @,
                    !.ops = (IF e.fetch THEN @ \cup {op} ELSE @) \cup
                            (IF e.refresh
                             THEN {RefreshOp(url, cfg, e.key, transportCalls + 1)} ELSE {})]
     /\ lastReturn' = IF e.fetch THEN lastReturn ELSE Return(calls + 1, e.outcome)
     /\ UNCHANGED <<now, skew, config, frozenUrls, dedupeRequests, retryOptions, created,
                    aborted, localStorage, cache, stats, freezeCache, historyCache, lastSuccessfulResponses,
                    requestLog, pendingRequests, ops, callers, autoFixCalls>>

\* the transport answers the GET of defaultClient's operation o with a response
packageTransportSucceed(o) ==
  LET d == defaultClient
      response == Response(o.call)
  IN /\ o \in d.ops
     /\ defaultClient' =
          [d EXCEPT !.cache = cacheResponse(@, o.key, response),
                    !.lastSuccessfulResponses = MapSet(@, o.url, response),
                    !.historyCache =
                       IF ~d.config.enableTimeTravel THEN @
                       ELSE MapSet(@, o.url, Append(historyOf(@, o.url),
                                                    [timestamp |-> now, response |-> response])),
                    !.ops = @ \ {o}]
     /\ lastReturn' = IF o.phase = "refresh" THEN lastReturn ELSE Return(o.id, response)
     /\ UNCHANGED <<now, skew, config, frozenUrls, dedupeRequests, retryOptions, created,
                    aborted, localStorage, cache, stats, freezeCache, historyCache, lastSuccessfulResponses,
                    requestLog, pendingRequests, ops, callers, calls, transportCalls,
                    autoFixCalls>>

----------------------------------------------------------------------------
(* A Fetchless client built with createClient(config) *)

DefaultRetryOptions ==
  [maxRetries |-> 3, backoffFactor |-> 300, retryStatusCodes |-> retryStatusCodes]

InitCommon ==
  /\ now = 0
  /\ skew = 0
  /\ cache = <<>>
  /\ stats = NoStats
  /\ frozenUrls = {}
  /\ freezeCache = <<>>
  /\ historyCache = <<>>
  /\ lastSuccessfulResponses = <<>>
  /\ requestLog = <<>>
  /\ pendingRequests = <<>>
  /\ ops = {}
  /\ callers = {}
  /\ calls = 0
  /\ lastReturn = Return(0, NoResult)
  /\ transportCalls = 0
  /\ autoFixCalls = 0
  /\ created = <<>>
  /\ aborted = {}
  /\ defaultClient = NewClient(DefaultClientConfig)
  /\ localStorage = <<>>

Init ==
  /\ InitCommon
  /\ \E strategy \in Strategies, enableTimeTravel \in BOOLEAN :
       config = [strategy |-> strategy, maxAge |-> maxAge, maxSize |-> maxSize,
                 enableTimeTravel |-> enableTimeTravel, enableIntelligencePanel |-> FALSE]
  /\ dedupeRequests = FALSE
  /\ retryOptions = DefaultRetryOptions

GetConfigs ==
  {PlainConfig, Config(NoParams, "", "", "value", NoAt), Config(NoParams, "", "", "null", NoAt),
   Config(NoParams, "", "", "", <<"iso", 1>>)}

FailStatuses == {0}

Next ==
  \/ \E url \in URLs, cfg \in GetConfigs : Get(url, cfg)
  \/ \E o \in ops : TransportSucceed(o)
  \/ \E o \in ops, status \in FailStatuses : TransportFail(o, status)
  \/ \E url \in URLs : freeze(url)
  \/ \E url \in URLs : unfreeze(url)
  \/ clearCache
  \/ Tick
  \/ \E i \in 1..Len(cache) : ttlAutopurge(i)

Spec == Init /\ [][Next]_vars

----------------------------------------------------------------------------
(* An AdvancedFetchless client built with createAdvancedClient(options) *)

InitAdv ==
  /\ InitCommon
  /\ config = [strategy |-> "cache-first", maxAge |-> maxAge, maxSize |-> maxSize,
               enableTimeTravel |-> FALSE, enableIntelligencePanel |-> FALSE]
  /\ dedupeRequests = TRUE
  /\ retryOptions = [DefaultRetryOptions EXCEPT !.maxRetries = 1, !.backoffFactor = backoffFactor]

\* the same two params in both insertion orders, and one request that differs
\* from the first by its Authorization header only
AdvConfigs ==
  {Config(<<<<"a", "1">>, <<"b", "2">>>>, "", "", "", NoAt),
   Config(<<<<"b", "2">>, <<"a", "1">>>>, "", "", "", NoAt),
   Config(<<<<"a", "1">>, <<"b", "2">>>>, "A", "", "", NoAt)}

AdvURLs == {<<"u1">>}

AdvFailStatuses == {0, 404}

NextAdv ==
  \/ \E url \in AdvURLs, cfg \in AdvConfigs : AdvGet(url, cfg)
  \/ \E o \in ops : TransportSucceed(o)
  \/ \E o \in ops, status \in AdvFailStatuses : TransportFail(o, status)
  \/ \E o \in ops : RetryFire(o)
  \/ \E c \in callers : Finally(c)
  \/ \E c \in callers : Deliver(c)
  \/ Tick
  \/ \E i \in 1..Len(cache) : ttlAutopurge(i)

SpecAdv == InitAdv /\ [][NextAdv]_vars

----------------------------------------------------------------------------
(* Clients of one strategy, called with plain requests *)

InitCacheFirst ==
  /\ InitCommon
  /\ config = [strategy |-> "cache-first", maxAge |-> maxAge, maxSize |-> maxSize,
               enableTimeTravel |-> FALSE, enableIntelligencePanel |-> FALSE]
  /\ dedupeRequests = FALSE
  /\ retryOptions = DefaultRetryOptions

InitNetworkFirst ==
  /\ InitCommon
  /\ config = [strategy |-> "network-first", maxAge |-> maxAge, maxSize |-> maxSize,
               enableTimeTravel |-> FALSE, enableIntelligencePanel |-> FALSE]
  /\ dedupeRequests = FALSE
  /\ retryOptions = DefaultRetryOptions

PlainConfigs == {PlainConfig, Config(NoParams, "", "", "null", NoAt)}

NextPlain ==
  \/ \E url \in URLs, cfg \in PlainConfigs : Get(url, cfg)
  \/ \E o \in ops : TransportSucceed(o)
  \/ \E o \in ops, status \in FailStatuses : TransportFail(o, status)
  \/ clearCache
  \/ Tick
  \/ \E i \in 1..Len(cache) : ttlAutopurge(i)

SpecCacheFirst == InitCacheFirst /\ [][NextPlain]_vars

SpecNetworkFirst == InitNetworkFirst /\ [][NextPlain]_vars

----------------------------------------------------------------------------
(* A client with time travel enabled, asked for the past of one URL *)

InitTimeTravel ==
  /\ InitCommon
  /\ config = [strategy |-> "network-first", maxAge |-> maxAge, maxSize |-> maxSize,
               enableTimeTravel |-> TRUE, enableIntelligencePanel |-> FALSE]
  /\ dedupeRequests = FALSE
  /\ retryOptions = DefaultRetryOptions

TimeTravelURLs == {<<"u1">>}

\* a plain request, requests for the instants 1 and 3, and one with an unparsable date
TimeTravelConfigs ==
  {PlainConfig, Config(NoParams, "", "", "", <<"iso", 1>>),
   Config(NoParams, "", "", "", <<"iso", 3>>), Config(NoParams, "", "", "", <<"bad">>)}

NextTimeTravel ==
  \/ \E url \in TimeTravelURLs, cfg \in TimeTravelConfigs : Get(url, cfg)
  \/ \E o \in ops : TransportSucceed(o)
  \/ \E o \in ops, status \in FailStatuses : TransportFail(o, status)
  \/ \E url \in TimeTravelURLs : freeze(url)
  \/ \E url \in TimeTravelURLs : unfreeze(url)
  \/ clearCache
  \/ Tick
  \/ \E i \in 1..Len(cache) : ttlAutopurge(i)

SpecTimeTravel == InitTimeTravel /\ [][NextTimeTravel]_vars

----------------------------------------------------------------------------
(* Clients of each strategy whose requests carry an autoFix function *)

InitFailure ==
  /\ InitCommon
  /\ \E strategy \in Strategies :
       config = [strategy |-> strategy, maxAge |-> maxAge, maxSize |-> maxSize,
                 enableTimeTravel |-> TRUE, enableIntelligencePanel |-> FALSE]
  /\ dedupeRequests = FALSE
  /\ retryOptions = DefaultRetryOptions

FailureURLs == {<<"u1">>}

\* no autoFix, and autoFix functions that return a value, return null and throw
FailureConfigs ==
  {PlainConfig, Config(NoParams, "", "", "value", NoAt), Config(NoParams, "", "", "null", NoAt),
   Config(NoParams, "", "", "throws", NoAt)}

NextFailure ==
  \/ \E url \in FailureURLs, cfg \in FailureConfigs : Get(url, cfg)
  \/ \E o \in ops : TransportSucceed(o)
  \/ \E o \in ops, status \in AdvFailStatuses : TransportFail(o, status)
  \/ clearCache
  \/ Tick
  \/ \E i \in 1..Len(cache) : ttlAutopurge(i)

SpecFailure == InitFailure /\ [][NextFailure]_vars

----------------------------------------------------------------------------
(* A stale-while-revalidate client on a machine whose wall clock can be set *)
(* forward; only then does a read find an entry that is expired and not yet *)
(* dropped by the store's own ttl                                           *)

InitRefresh ==
  /\ InitCommon
  /\ config = [strategy |-> "stale-while-revalidate", maxAge |-> maxAge, maxSize |-> maxSize,
               enableTimeTravel |-> TRUE, enableIntelligencePanel |-> FALSE]
  /\ dedupeRequests = FALSE
  /\ retryOptions = DefaultRetryOptions

RefreshURLs == {<<"u1">>}

RefreshConfigs == {PlainConfig, Config(NoParams, "", "", "value", NoAt)}

NextRefresh ==
  \/ \E url \in RefreshURLs, cfg \in RefreshConfigs : Get(url, cfg)
  \/ \E o \in ops : TransportSucceed(o)
  \/ \E o \in ops, status \in FailStatuses : TransportFail(o, status)
  \/ Tick
  \/ ClockStep
  \/ \E i \in 1..Len(cache) : ttlAutopurge(i)

SpecRefresh == InitRefresh /\ [][NextRefresh]_vars

----------------------------------------------------------------------------
(* A client asked for three URLs, one more than its entry store holds *)

InitLRU ==
  /\ InitCommon
  /\ config = [strategy |-> "cache-first", maxAge |-> maxAge, maxSize |-> maxSize,
               enableTimeTravel |-> TRUE, enableIntelligencePanel |-> FALSE]
  /\ dedupeRequests = FALSE
  /\ retryOptions = DefaultRetryOptions

LRUURLs == {<<"u1">>, <<"u2">>, <<"u3">>}

\* the URL whose entry is also read by freeze
LRUFrozenURLs == {<<"u1">>}

NextLRU ==
  \/ \E url \in LRUURLs : Get(url, PlainConfig)
  \/ \E o \in ops : TransportSucceed(o)
  \/ \E url \in LRUFrozenURLs : freeze(url)
  \/ Tick
  \/ \E i \in 1..Len(cache) : ttlAutopurge(i)

SpecLRU == InitLRU /\ [][NextLRU]_vars

----------------------------------------------------------------------------
(* A program that calls Fetchless.createClient more than once *)

PartialConfig(strategy, enableTimeTravel) ==
  [strategy |-> strategy, maxAge |-> 0, maxSize |-> 0, enableTimeTravel |-> enableTimeTravel,
   enableIntelligencePanel |-> FALSE]

ClientConfigs ==
  {PartialConfig("", FALSE), PartialConfig("network-first", FALSE), PartialConfig("", TRUE)}

ClientURLs == {<<"u1">>}

\* the state after the first createClient call
InitClients ==
  /\ now = 0 /\ skew = 0 /\ cache = <<>> /\ stats = NoStats
  /\ frozenUrls = {} /\ freezeCache = <<>> /\ historyCache = <<>>
  /\ lastSuccessfulResponses = <<>> /\ requestLog = <<>> /\ pendingRequests = <<>>
  /\ ops = {} /\ callers = {} /\ calls = 0 /\ lastReturn = Return(0, NoResult)
  /\ transportCalls = 0 /\ autoFixCalls = 0 /\ aborted = {}
  /\ defaultClient = NewClient(DefaultClientConfig)
  /\ localStorage = <<>>
  /\ dedupeRequests = FALSE
  /\ retryOptions = DefaultRetryOptions
  /\ \E cfg \in ClientConfigs :
       /\ config = constructor(cfg)
       /\ created = <<[config |-> cfg, client |-> 1]>>

NextClients ==
  \/ \E cfg \in ClientConfigs : createClient(cfg)
  \/ \E url \in ClientURLs : Get(url, PlainConfig)
  \/ \E o \in ops : TransportSucceed(o)
  \/ \E o \in ops, status \in FailStatuses : TransportFail(o, status)
  \/ Tick

SpecClients == InitClients /\ [][NextClients]_vars

----------------------------------------------------------------------------
(* An AdvancedFetchless client whose gets are made with abortableGet *)

InitAbort ==
  /\ InitCommon
  /\ config = [strategy |-> "cache-first", maxAge |-> maxAge, maxSize |-> maxSize,
               enableTimeTravel |-> FALSE, enableIntelligencePanel |-> FALSE]
  /\ dedupeRequests = TRUE
  /\ retryOptions = [DefaultRetryOptions EXCEPT !.maxRetries = 1, !.backoffFactor = backoffFactor]

AbortURLs == {<<"u1">>}

AbortConfigs == {PlainConfig, Config(NoParams, "", "", "value", NoAt)}

AbortFailStatuses == {0, Canceled}

NextAbort ==
  \/ \E url \in AbortURLs, cfg \in AbortConfigs : AdvGet(url, cfg)
  \/ \E id \in 1..calls : abort(id)
  \/ \E o \in ops : TransportSucceed(o)
  \/ \E o \in ops, status \in AbortFailStatuses : TransportFail(o, status)
  \/ \E o \in ops : RetryFire(o)
  \/ \E c \in callers : Finally(c)
  \/ \E c \in callers : Deliver(c)
  \/ Tick

SpecAbort == InitAbort /\ [][NextAbort]_vars

----------------------------------------------------------------------------
(* AdvancedFetchless clients built with different retryOptions.maxRetries *)

RetryLimits == {0, 1, 2}

InitRetry ==
  /\ InitCommon
  /\ config = [strategy |-> "cache-first", maxAge |-> maxAge, maxSize |-> maxSize,
               enableTimeTravel |-> FALSE, enableIntelligencePanel |-> FALSE]
  /\ dedupeRequests = FALSE
  /\ \E n \in RetryLimits :
       retryOptions = [DefaultRetryOptions EXCEPT !.maxRetries = n,
                                                  !.backoffFactor = backoffFactor]

RetryURLs == {<<"u1">>}

RetryFailStatuses == {0, 404, 503}

NextRetry ==
  \/ \E url \in RetryURLs : AdvGet(url, PlainConfig)
  \/ \E o \in ops : TransportSucceed(o)
  \/ \E o \in ops, status \in RetryFailStatuses : TransportFail(o, status)
  \/ \E o \in ops : RetryFire(o)
  \/ Tick

SpecRetry == InitRetry /\ [][NextRetry]_vars

----------------------------------------------------------------------------
(* Clients with and without time travel, under every strategy *)

InitHistory ==
  /\ InitCommon
  /\ \E strategy \in Strategies, enableTimeTravel \in BOOLEAN :
       config = [strategy |-> strategy, maxAge |-> maxAge, maxSize |-> maxSize,
                 enableTimeTravel |-> enableTimeTravel, enableIntelligencePanel |-> FALSE]
  /\ dedupeRequests = FALSE
  /\ retryOptions = DefaultRetryOptions

HistoryURLs == {<<"u1">>}

HistoryConfigs == {PlainConfig, Config(NoParams, "", "", "value", NoAt)}

NextHistory ==
  \/ \E url \in HistoryURLs, cfg \in HistoryConfigs : Get(url, cfg)
  \/ \E o \in ops : TransportSucceed(o)
  \/ \E o \in ops, status \in FailStatuses : TransportFail(o, status)
  \/ cleanupHistory
  \/ Tick
  \/ ClockStep
  \/ \E i \in 1..Len(cache) : ttlAutopurge(i)

SpecHistory == InitHistory /\ [][NextHistory]_vars

----------------------------------------------------------------------------
(* A client whose URLs are frozen and unfrozen *)

FreezeURLs == {<<"u1">>, <<"u2">>}

NextFreeze ==
  \/ \E url \in FreezeURLs : Get(url, PlainConfig)
  \/ \E o \in ops : TransportSucceed(o)
  \/ \E url \in FreezeURLs : freeze(url)
  \/ \E url \in FreezeURLs : unfreeze(url)
  \/ unfreezeAll
  \/ Tick

SpecFreeze == InitCacheFirst /\ [][NextFreeze]_vars

----------------------------------------------------------------------------
(* A client called with params objects that differ in insertion order, in a *)
(* value, or in the number of params                                        *)

KeyURLs == {<<"u1">>}

KeyConfigs ==
  {PlainConfig,
   Config(<<<<"a", "1">>>>, "", "", "", NoAt),
   Config(<<<<"a", "1">>, <<"b", "2">>>>, "", "", "", NoAt),
   Config(<<<<"b", "2">>, <<"a", "1">>>>, "", "", "", NoAt),
   Config(<<<<"b", "1">>, <<"a", "2">>>>, "", "", "", NoAt)}

NextKeys ==
  \/ \E url \in KeyURLs, cfg \in KeyConfigs : Get(url, cfg)
  \/ \E o \in ops : TransportSucceed(o)
  \/ Tick

SpecKeys == InitCacheFirst /\ [][NextKeys]_vars

----------------------------------------------------------------------------
(* The request log of a client with the intelligence panel, filled through  *)
(* getIntelligence().logRequest                                            *)

InitLog ==
  /\ InitCommon
  /\ config = [strategy |-> "cache-first", maxAge |-> maxAge, maxSize |-> maxSize,
               enableTimeTravel |-> FALSE, enableIntelligencePanel |-> TRUE]
  /\ dedupeRequests = FALSE
  /\ retryOptions = DefaultRetryOptions

LogURLs == {<<"u1">>, <<"u2">>}

LogComponents == {"", "A"}

NextLog ==
  \E url \in LogURLs, component \in LogComponents :
    Len(requestLog) < MaxLog /\ logRequest(url, component)

SpecLog == InitLog /\ [][NextLog]_vars

----------------------------------------------------------------------------
(* A client that reads with get and writes with post, put and delete: a     *)
(* Fetchless client with time travel, or an AdvancedFetchless client, whose *)
(* get is the overriding one                                                *)

InitVerbs ==
  /\ InitCommon
  /\ retryOptions = DefaultRetryOptions
  /\ \E advanced \in BOOLEAN :
       /\ dedupeRequests = advanced
       /\ config = [strategy |-> "cache-first", maxAge |-> maxAge, maxSize |-> maxSize,
                    enableTimeTravel |-> ~advanced, enableIntelligencePanel |-> FALSE]

VerbURLs == {<<"u1">>, <<"u2">>}

NextVerbs ==
  \/ \E url \in VerbURLs : ~dedupeRequests /\ Get(url, PlainConfig)
  \/ \E url \in VerbURLs : dedupeRequests /\ AdvGet(url, PlainConfig)
  \/ \E o \in ops : TransportSucceed(o)
  \/ \E c \in callers : Finally(c)
  \/ \E c \in callers : Deliver(c)
  \/ \E url \in VerbURLs : post(url)
  \/ \E url \in VerbURLs : put(url)
  \/ \E url \in VerbURLs : delete(url)
  \/ Tick

SpecVerbs == InitVerbs /\ [][NextVerbs]_vars

----------------------------------------------------------------------------
(* A client whose statistics are read *)

StatsURLs == {<<"u1">>, <<"u2">>}

NextStats ==
  \/ \E url \in StatsURLs : Get(url, PlainConfig)
  \/ \E o \in ops : TransportSucceed(o)
  \/ getStats
  \/ clearCache
  \/ Tick
  \/ \E i \in 1..Len(cache) : ttlAutopurge(i)

SpecStats == InitCacheFirst /\ [][NextStats]_vars

----------------------------------------------------------------------------
(* A program that uses the functions the package module exports *)

PackageURLs == {<<"u1">>}

PackageFailStatuses == {404}

NextPackage ==
  \/ \E url \in PackageURLs : prefetch(url)
  \/ \E url \in PackageURLs : packageGet(url)
  \/ \E o \in ops : TransportSucceed(o)
  \/ \E o \in ops, status \in PackageFailStatuses : TransportFail(o, status)
  \/ \E o \in defaultClient.ops : packageTransportSucceed(o)
  \/ \E c \in callers : Finally(c)
  \/ \E c \in callers : Deliver(c)
  \/ Tick

SpecPackage == InitAdv /\ [][NextPackage]_vars

----------------------------------------------------------------------------
(* A client that freezes a URL it has read with and without params or an    *)
(* Authorization header                                                      *)

FreezeKeyURLs == {<<"u1">>}

FreezeKeyConfigs ==
  {PlainConfig,
   Config(<<<<"a", "1">>>>, "", "", "", NoAt),
   Config(NoParams, "A", "", "", NoAt)}

NextFreezeKeys ==
  \/ \E url \in FreezeKeyURLs, cfg \in FreezeKeyConfigs : Get(url, cfg)
  \/ \E o \in ops : TransportSucceed(o)
  \/ \E url \in FreezeKeyURLs : freeze(url)
  \/ Tick

SpecFreezeKeys == InitCacheFirst /\ [][NextFreezeKeys]_vars

----------------------------------------------------------------------------
(* A client with time travel, with or without the intelligence panel, read  *)
(* in the present and in the past                                            *)

InitIntelligence ==
  /\ InitCommon
  /\ \E enableIntelligencePanel \in BOOLEAN :
       config = [strategy |-> "cache-first", maxAge |-> maxAge, maxSize |-> maxSize,
                 enableTimeTravel |-> TRUE,
                 enableIntelligencePanel |-> enableIntelligencePanel]
  /\ dedupeRequests = FALSE
  /\ retryOptions = DefaultRetryOptions

IntelligenceURLs == {<<"u1">>, <<"u2">>}

IntelligenceConfigs == {PlainConfig, Config(NoParams, "", "", "", <<"iso", 1>>)}

NextIntelligence ==
  \/ \E url \in IntelligenceURLs, cfg \in IntelligenceConfigs : Get(url, cfg)
  \/ \E o \in ops : TransportSucceed(o)
  \/ \E o \in ops, status \in FailStatuses : TransportFail(o, status)
  \/ Tick

SpecIntelligence == InitIntelligence /\ [][NextIntelligence]_vars

----------------------------------------------------------------------------
(* A client whose fetches of one URL, under three cache keys, succeed and    *)
(* fail, and whose entry store is cleared.  Time passes on the wall clock    *)
(* only, so an expired entry is still in the store when it is read.          *)

InitLast ==
  /\ InitCommon
  /\ \E strategy \in Strategies :
       config = [strategy |-> strategy, maxAge |-> maxAge, maxSize |-> maxSize,
                 enableTimeTravel |-> FALSE, enableIntelligencePanel |-> FALSE]
  /\ dedupeRequests = FALSE
  /\ retryOptions = DefaultRetryOptions

LastURLs == {<<"u1">>}

\* one request with an autoFix, and two whose cache keys differ from its key
LastConfigs ==
  {Config(NoParams, "", "", "value", NoAt),
   Config(<<<<"a", "1">>>>, "", "", "", NoAt),
   Config(NoParams, "A", "", "", NoAt)}

NextLast ==
  \/ \E url \in LastURLs, cfg \in LastConfigs : Get(url, cfg)
  \/ \E o \in ops : TransportSucceed(o)
  \/ \E o \in ops, status \in FailStatuses : TransportFail(o, status)
  \/ clearCache
  \/ ClockStep

SpecLast == InitLast /\ [][NextLast]_vars

----------------------------------------------------------------------------
(* The request log of a client whose requests go to two URLs that differ in *)
(* their query string only, after none or four requests to a third URL      *)

Repeat(x, n) == [i \in 1..n |-> x]

SuggestURLs == {<<"u1", "?", "page=1">>, <<"u1", "?", "page=2">>}

OtherURL == <<"u2", "?", "page=1">>

InitSuggest ==
  /\ now = 0 /\ skew = 0 /\ cache = <<>> /\ stats = NoStats
  /\ frozenUrls = {} /\ freezeCache = <<>> /\ historyCache = <<>>
  /\ lastSuccessfulResponses = <<>> /\ pendingRequests = <<>>
  /\ ops = {} /\ callers = {} /\ calls = 0 /\ lastReturn = Return(0, NoResult)
  /\ transportCalls = 0 /\ autoFixCalls = 0 /\ created = <<>> /\ aborted = {}
  /\ defaultClient = NewClient(DefaultClientConfig)
  /\ localStorage = <<>>
  /\ config = [strategy |-> "cache-first", maxAge |-> maxAge, maxSize |-> maxSize,
               enableTimeTravel |-> FALSE, enableIntelligencePanel |-> TRUE]
  /\ dedupeRequests = FALSE
  /\ retryOptions = DefaultRetryOptions
  /\ requestLog \in {<<>>, Repeat(LogEntry(OtherURL, ""), 4)}

NextSuggest ==
  \E url \in SuggestURLs : Len(requestLog) < MaxSuggestLog /\ logRequest(url, "")

SpecSuggest == InitSuggest /\ [][NextSuggest]_vars

----------------------------------------------------------------------------
(* An AdvancedFetchless constructed over a persistent storage *)

\* AdvancedFetchless.maxAge as the field initialiser leaves it: the constructor
\* assigns advancedOptions.maxAge only after loadCacheFromStorage has run
advancedMaxAge == maxAge

\* one item of a Storage: its key, split after the prefix when it has one, and
\* the PersistentCacheEntry that JSON.parse gives for its value
StorageItem(key, timestamp) ==
  [key |-> key, entry |-> [data |-> "stored", status |-> 200, timestamp |-> timestamp]]

\* key.startsWith('fetchless:')
hasPrefix(key) == key # <<>> /\ key[1] = "fetchless:"

\* key.replace('fetchless:', '')
urlOfKey(key) == Tail(key)

\* the response loadCacheFromStorage rebuilds from a stored entry
StoredResponse(entry) ==
  [type |-> "response", src |-> "storage", n |-> 0, status |-> entry.status, text |-> ""]

\* the stored items loadCacheFromStorage calls super.get for, in key(i) order
loadable(storage) ==
  SelectSeq(storage, LAMBDA it : hasPrefix(it.key) /\ now - it.entry.timestamp < advancedMaxAge)

\* loadCacheFromStorage(): the Fetchless.get operations it starts on the new
\* client, whose cache is empty; their rejections are swallowed
loadCacheFromStorage(storage) ==
  LET fresh == loadable(storage) IN
  {Op(calls + k, "base", TRUE, urlOfKey(fresh[k].key), PlainConfig,
      get(urlOfKey(fresh[k].key), PlainConfig), 0, transportCalls + k) : k \in 1..Len(fresh)}

\* new AdvancedFetchless(options): persistCache and a storage make the
\* constructor keep the storage and load from it
createAdvancedClient(options) ==
  LET loads == IF options.persistCache /\ options.localStorage
               THEN loadCacheFromStorage(localStorage) ELSE {}
      n == Cardinality(loads)
  IN /\ created = <<>>
     /\ calls + n <= MaxCalls
     /\ transportCalls + n <= MaxTransport
     /\ created' = <<[config |-> options, client |-> 1]>>
     /\ config' = constructor(PartialConfig("", FALSE))
     /\ dedupeRequests' = TRUE
     /\ retryOptions' = DefaultRetryOptions
     /\ ops' = ops \cup loads
     /\ stats' = [stats EXCEPT !.misses = @ + n]
     /\ calls' = calls + n
     /\ transportCalls' = transportCalls + n
     /\ UNCHANGED <<now, skew, frozenUrls, aborted, defaultClient, localStorage, cache,
                    freezeCache, historyCache, lastSuccessfulResponses, requestLog,
                    pendingRequests, callers, lastReturn, autoFixCalls>>

PersistOptions == [persistCache : BOOLEAN, localStorage : BOOLEAN]

\* when the stored entries were written, before the program started at 0
StoredAt == {-1, 0}

Storages ==
  {<<>>, <<StorageItem(<<"theme">>, 0)>>}
  \cup {<<StorageItem(<<"fetchless:", "u1">>, t)>> : t \in StoredAt}
  \cup {<<StorageItem(<<"fetchless:", "u1">>, t1), StorageItem(<<"fetchless:", "u2">>, t2)>> :
          t1 \in StoredAt, t2 \in StoredAt}
  \cup {<<StorageItem(<<"theme">>, 0), StorageItem(<<"fetchless:", "u1">>, t)>> : t \in StoredAt}

PersistFailStatuses == {404}

\* the program before it constructs its client
InitPersist ==
  /\ now = 0 /\ skew = 0 /\ cache = <<>> /\ stats = NoStats
  /\ frozenUrls = {} /\ freezeCache = <<>> /\ historyCache = <<>>
  /\ lastSuccessfulResponses = <<>> /\ requestLog = <<>> /\ pendingRequests = <<>>
  /\ ops = {} /\ callers = {} /\ calls = 0 /\ lastReturn = Return(0, NoResult)
  /\ transportCalls = 0 /\ autoFixCalls = 0 /\ created = <<>> /\ aborted = {}
  /\ defaultClient = NewClient(DefaultClientConfig)
  /\ config = constructor(PartialConfig("", FALSE))
  /\ dedupeRequests = TRUE
  /\ retryOptions = DefaultRetryOptions
  /\ localStorage \in Storages

NextPersist ==
  \/ \E options \in PersistOptions : createAdvancedClient(options)
  \/ \E o \in ops : TransportSucceed(o)
  \/ \E o \in ops, status \in PersistFailStatuses : TransportFail(o, status)
  \/ Tick

SpecPersist == InitPersist /\ [][NextPersist]_vars

----------------------------------------------------------------------------
(* The claims *)

AllConfigs == GetConfigs \cup PlainConfigs \cup AdvConfigs

\* the strategy handleRequest applies to a request
StrategyOf(cfg) == IF cfg.strategy # "" THEN cfg.strategy ELSE config.strategy

\* the stored entry of a key, whatever its age
Stored(key) == cache[IndexOf(cache, key)]

\* C1: once freeze(url) has found a stored response R for url, and until
\* unfreeze(url), every get(url) returns exactly R and issues no transport call,
\* under any strategy and whatever has happened to the entry store since.
C1_FrozenGetReturnsFrozenValue ==
  [][\A url \in URLs, cfg \in AllConfigs :
       (Get(url, cfg) /\ cfg.at = NoAt /\ url \in DOMAIN freezeCache)
         => /\ lastReturn' = Return(calls + 1, freezeCache[url].response)
            /\ transportCalls' = transportCalls]_vars

C3_OneInFlightPerCacheKey ==
  \A o1 \in ops, o2 \in ops :
    (o1.state = "fetching" /\ o2.state = "fetching" /\ o1.key = o2.key) => o1 = o2

\* C4: no get joins a pending entry whose operation has already finished: a get
\* for a key whose operation has failed starts a fresh operation.
C4_NoJoinAfterFailure ==
  [][\A url \in AdvURLs, cfg \in AllConfigs :
       (/\ AdvGet(url, cfg)
        /\ \E o \in ops : /\ o.state = "settled" /\ o.outcome.type = "error"
                         /\ o.url = url /\ o.cfg = cfg)
         => \E o \in ops' \ ops : o.id = calls + 1]_vars

\* C5: under cache-first, a get issued while no other call is in progress is
\* answered from the store (the stored response, one hit, no transport call)
\* exactly when the store holds an entry for the key stored at most maxAge ago;
\* otherwise it counts one miss and issues one transport call, whose response
\* is stored under the key and returned.
C5_CacheFirstHitIffFresh ==
  [][/\ \A url \in URLs, cfg \in AllConfigs :
          (Get(url, cfg) /\ StrategyOf(cfg) = "cache-first" /\ cfg.at = NoAt /\ ops = {})
            => LET key == generateCacheKey(url, cfg) IN
               IF IndexOf(cache, key) # 0 /\ now - Stored(key).timestamp <= config.maxAge
               THEN /\ lastReturn' = Return(calls + 1, Stored(key).response)
                    /\ stats' = [stats EXCEPT !.hits = @ + 1]
                    /\ transportCalls' = transportCalls
                    /\ ops' = {}
               ELSE /\ stats' = [stats EXCEPT !.misses = @ + 1]
                    /\ transportCalls' = transportCalls + 1
                    /\ lastReturn' = lastReturn
                    /\ \E o \in ops' : /\ o.id = calls + 1 /\ o.state = "fetching"
                                      /\ o.key = key /\ o.call = transportCalls + 1
     /\ \A o \in ops :
          (TransportSucceed(o) /\ o.phase = "cache-first")
            => /\ lastReturn' = Return(o.id, Response(o.call))
               /\ IndexOf(cache', o.key) # 0
               /\ cache'[IndexOf(cache', o.key)] =
                    [key |-> o.key, response |-> Response(o.call), timestamp |-> now,
                     start |-> now]
               /\ stats' = stats]_vars

\* C5 witness: the example of the claim in clock units (maxAge 2): gets at 0, 1
\* and 3 end with one hit, two misses and two transport calls
C5_Witness ==
  /\ config.strategy = "cache-first"
  /\ now = 3
  /\ calls = 3
  /\ ops = {}
  /\ stats.hits = 1 /\ stats.misses = 2
  /\ transportCalls = 2
  /\ cache = <<[key |-> <<"u1">>, response |-> Response(2), timestamp |-> 3, start |-> 3]>>
  /\ lastReturn = Return(3, Response(2))

\* C6: under stale-while-revalidate, a get for a key whose stored entry is older
\* than maxAge returns that stale response at once and starts exactly one
\* background transport call; when that call succeeds the store holds the
\* refreshed response.
C6_StaleServedAndRefreshed ==
  [][/\ \A url \in URLs, cfg \in AllConfigs :
          (/\ Get(url, cfg) /\ StrategyOf(cfg) = "stale-while-revalidate" /\ cfg.at = NoAt
           /\ IndexOf(cache, generateCacheKey(url, cfg)) # 0
           /\ isExpired(Stored(generateCacheKey(url, cfg))))
            => /\ lastReturn' = Return(calls + 1, Stored(generateCacheKey(url, cfg)).response)
               /\ transportCalls' = transportCalls + 1
               /\ \E o \in ops' \ ops : o.phase = "refresh"
     /\ \A o \in ops :
          (TransportSucceed(o) /\ o.phase = "refresh")
            => /\ IndexOf(cache', o.key) # 0
               /\ cache'[IndexOf(cache', o.key)].response = Response(o.call)]_vars

\* C7: under network-first, when the transport call fails and the store holds
\* an entry for the key, however old, the get returns the stored response and
\* counts one hit.
C7_NetworkFirstFallsBackToStored ==
  [][\A o \in ops, status \in FailStatuses :
       (/\ TransportFail(o, status) /\ o.phase = "network-first" /\ o.cfg.autoFix = ""
        /\ IndexOf(cache, o.key) # 0)
         => /\ lastReturn' = Return(o.id, Stored(o.key).response)
            /\ stats' = [stats EXCEPT !.hits = @ + 1]]_vars

\* C8: under network-first, when the transport call fails and the store holds a
\* live entry for the key, the get returns the stored response and the caller's
\* autoFix function is not invoked.
C8_NoAutoFixWhenStored ==
  [][\A o \in ops, status \in FailStatuses :
       (/\ TransportFail(o, status) /\ o.phase = "network-first"
        /\ LRUget(cache, o.key).value # <<>>)
         => /\ autoFixCalls' = autoFixCalls
            /\ lastReturn' = Return(o.id, Stored(o.key).response)]_vars

\* C9: under network-first every get issues exactly one transport call without
\* looking at or changing the entry store and the counters, so the number of
\* transport calls equals the number of gets; and a successful call replaces the
\* key's entry by the new response, which the get returns.
C9_NetworkFirstAlwaysFetches ==
  /\ [](config.strategy = "network-first" => transportCalls = calls)
  /\ [][/\ \A url \in URLs, cfg \in AllConfigs :
             (Get(url, cfg) /\ StrategyOf(cfg) = "network-first" /\ cfg.at = NoAt)
               => /\ transportCalls' = transportCalls + 1
                  /\ cache' = cache
                  /\ stats' = stats
                  /\ lastReturn' = lastReturn
                  /\ \E o \in ops' \ ops : /\ o.id = calls + 1 /\ o.state = "fetching"
                                          /\ o.call = transportCalls + 1
        /\ \A o \in ops :
             (TransportSucceed(o) /\ o.phase = "network-first")
               => /\ lastReturn' = Return(o.id, Response(o.call))
                  /\ cache' # <<>>
                  /\ cache'[Len(cache')] =
                       [key |-> o.key, response |-> Response(o.call), timestamp |-> now,
                        start |-> now]
                  /\ \A i \in 1..(Len(cache') - 1) : cache'[i].key # o.key]_vars

\* C9 witness: a second get for a key with a live entry went to the transport
\* and its response replaced the entry
C9_Witness ==
  /\ config.strategy = "network-first"
  /\ calls = 2
  /\ transportCalls = 2
  /\ ops = {}
  /\ now = 1
  /\ cache = <<[key |-> <<"u1">>, response |-> Response(2), timestamp |-> 1, start |-> 1]>>
  /\ lastReturn = Return(2, Response(2))
  /\ lastSuccessfulResponses = MapSet(<<>>, <<"u1">>, Response(2))

\* C10: get(url, {at}) fails with an error, issues no transport call and leaves
\* the entry store and the counters unchanged whenever time travel is disabled
\* or the URL has no snapshot.
C10_TimeTravelFailsWithoutHistory ==
  [][\A url \in URLs, cfg \in AllConfigs :
       (/\ Get(url, cfg) /\ cfg.at # NoAt
        /\ (~config.enableTimeTravel \/ historyOf(historyCache, url) = <<>>))
         => /\ lastReturn'.call = calls + 1
            /\ lastReturn'.result.type = "error"
            /\ transportCalls' = transportCalls
            /\ cache' = cache
            /\ stats' = stats]_vars

\* C11: with time travel enabled and at least one snapshot for url, get(url,
\* {at: T}) returns the snapshot whose timestamp is closest to T by absolute
\* difference, and among equally close snapshots the one appended earliest.
C11_ClosestSnapshotEarliestTie ==
  [][\A url \in TimeTravelURLs, cfg \in TimeTravelConfigs :
       (/\ Get(url, cfg) /\ cfg.at # NoAt /\ config.enableTimeTravel
        /\ DateParse(cfg.at) # NaN /\ historyOf(historyCache, url) # <<>>)
         => LET h == historyOf(historyCache, url)
                T == DateParse(cfg.at)
            IN \E i \in 1..Len(h) :
                 /\ lastReturn' = Return(calls + 1, h[i].response)
                 /\ \A j \in 1..Len(h) :
                      Abs(T - h[i].timestamp) <= Abs(T - h[j].timestamp)
                 /\ \A j \in 1..(i - 1) :
                      Abs(T - h[j].timestamp) > Abs(T - h[i].timestamp)]_vars

\* C11 witness: with snapshots taken at 0 and at 2, the third get, for the
\* instant 1 that is equally close to both, returned the earlier snapshot
C11_Witness ==
  /\ config.enableTimeTravel
  /\ historyOf(historyCache, <<"u1">>) =
       <<[timestamp |-> 0, response |-> Response(1)],
         [timestamp |-> 2, response |-> Response(2)]>>
  /\ calls = 3
  /\ transportCalls = 2
  /\ lastReturn = Return(3, Response(1))

\* C12: a time-travel read (get with at, time travel enabled, history non-empty
\* for url) returns a snapshot of the url's history even when url is frozen,
\* issues no transport call and leaves the entry store (contents and recency
\* order), hits, misses and the history store unchanged.
C12_TimeTravelReadTouchesNothing ==
  [][\A url \in TimeTravelURLs, cfg \in TimeTravelConfigs :
       (/\ Get(url, cfg) /\ cfg.at # NoAt /\ config.enableTimeTravel
        /\ DateParse(cfg.at) # NaN /\ historyOf(historyCache, url) # <<>>)
         => /\ lastReturn'.call = calls + 1
            /\ \E i \in 1..Len(historyOf(historyCache, url)) :
                 lastReturn'.result = historyOf(historyCache, url)[i].response
            /\ transportCalls' = transportCalls
            /\ ops' = ops
            /\ cache' = cache
            /\ stats' = stats
            /\ historyCache' = historyCache]_vars

\* C12 witness: u1 was fetched and frozen while its entry is live, and the
\* second get, a time-travel read, returned the snapshot without a transport
\* call, a hit or a miss
C12_Witness ==
  /\ config.enableTimeTravel
  /\ config.strategy = "network-first"
  /\ <<"u1">> \in DOMAIN freezeCache
  /\ cache # <<>>
  /\ ~isStale(cache[1])
  /\ calls = 2
  /\ transportCalls = 1
  /\ stats.hits = 0 /\ stats.misses = 0
  /\ lastReturn = Return(2, Response(1))

\* the entries of a store that reads can still see
Live(c) == SelectSeq(c, LAMBDA e : ~isStale(e))

\* no stored entry serves as a fallback for the failing operation o
NoFallback(o) == o.phase = "network-first" => LRUget(cache, o.key).value = <<>>

\* C13: under every strategy, when the transport GET fails, no cache fallback
\* applies and the caller's autoFix returns a value, the get resolves with the
\* substituted response (status 200, marked as auto-fixed); nothing is written
\* to the entry store, the history store or lastSuccessful, and a get for a key
\* without a live entry goes to the transport.
C13_AutoFixSubstitutesWithoutStoring ==
  [][/\ \A o \in ops, status \in AdvFailStatuses :
          (/\ TransportFail(o, status) /\ o.phase \in Strategies
           /\ o.cfg.autoFix = "value" /\ NoFallback(o))
            => /\ lastReturn' = Return(o.id, [type |-> "response", src |-> "autoFix", n |-> 0,
                                              status |-> 200, text |-> "OK (Auto-Fixed)"])
               /\ cache' = cache
               /\ historyCache' = historyCache
               /\ lastSuccessfulResponses' = lastSuccessfulResponses
     /\ \A url \in FailureURLs, cfg \in FailureConfigs :
          (Get(url, cfg) /\ LRUget(cache, generateCacheKey(url, cfg)).value = <<>>)
            => /\ transportCalls' = transportCalls + 1
               /\ \E o \in ops' \ ops : o.state = "fetching" /\ o.id = calls + 1]_vars

\* C13 witness: the first get was answered by autoFix, the store is still empty
\* and the second get for the key is at the transport again
C13_Witness ==
  /\ lastReturn.call = 1
  /\ lastReturn.result.src = "autoFix"
  /\ lastReturn.result.status = 200
  /\ cache = <<>>
  /\ historyCache = <<>>
  /\ lastSuccessfulResponses = <<>>
  /\ calls = 2
  /\ transportCalls = 2
  /\ \E o \in ops : o.id = 2 /\ o.state = "fetching" /\ o.call = 2

\* C14: when the caller's autoFix returns null or throws and no cache fallback
\* applies, the get fails with the original transport error.
C14_AutoFixNullOrThrowKeepsError ==
  [][\A o \in ops, status \in AdvFailStatuses :
       (/\ TransportFail(o, status) /\ o.phase \in Strategies
        /\ o.cfg.autoFix \in {"null", "throws"} /\ NoFallback(o))
         => /\ lastReturn' = Return(o.id, TransportError(o.call, status))
            /\ autoFixCalls' = autoFixCalls + 1]_vars

\* C14 witness: an autoFix function was invoked for a call that failed with
\* status 404, and the get failed with that transport error
C14_Witness ==
  /\ autoFixCalls = 1
  /\ calls = 1
  /\ lastReturn = Return(1, TransportError(1, 404))

C16_RefreshFailureIsSwallowed ==
  [][/\ \A url \in RefreshURLs, cfg \in RefreshConfigs :
          (Get(url, cfg) /\ \E o \in ops' \ ops : o.phase = "refresh")
            => /\ lastReturn'.call = calls + 1
               /\ lastReturn'.result.type = "response"
     /\ \A o \in ops, status \in FailStatuses :
          (TransportFail(o, status) /\ o.phase = "refresh")
            => /\ lastReturn' = lastReturn
               /\ ops' = ops \ {o}
               /\ cache' = cache
               /\ historyCache' = historyCache
               /\ lastSuccessfulResponses' = lastSuccessfulResponses
               /\ stats' = stats
               /\ autoFixCalls' = autoFixCalls]_vars

\* C16 witness: the second get was answered with the expired first response
\* and started a refresh (transport call 2); that call has failed, and the
\* stores still hold the first response only
C16_Witness ==
  /\ config.strategy = "stale-while-revalidate"
  /\ calls = 2
  /\ transportCalls = 2
  /\ ops = {}
  /\ stats.hits = 1 /\ stats.misses = 1
  /\ lastReturn = Return(2, Response(1))
  /\ Len(cache) = 1
  /\ cache[1].response = Response(1)
  /\ historyOf(historyCache, <<"u1">>) = <<[timestamp |-> 0, response |-> Response(1)]>>
  /\ lastSuccessfulResponses = MapSet(<<>>, <<"u1">>, Response(1))

\* C17: a response fetched for a get carrying Authorization A is never delivered
\* to a get for the same URL and params carrying another Authorization B:
\* the two requests have different entry-store keys, and a get never joins an
\* operation in progress that was started with another Authorization.
C17_NoSharingAcrossAuthorization ==
  /\ [](\A url \in AdvURLs, cfg1 \in AdvConfigs, cfg2 \in AdvConfigs :
          cfg1.auth # cfg2.auth => generateCacheKey(url, cfg1) # generateCacheKey(url, cfg2))
  /\ [][\A url \in AdvURLs, cfg \in AdvConfigs :
          AdvGet(url, cfg)
            => \A c \in callers' \ callers, o \in ops :
                 (c.role = "join" /\ c.op = o.id) => o.cfg.auth = cfg.auth]_vars

\* C21: every createClient(cfg) call returns a client of its own, distinct from
\* the client of every other call, and that client's configuration is the one
\* the constructor derives from cfg.
C21_EachCreateClientOwnsItsClient ==
  \A i \in 1..Len(created), j \in 1..Len(created) :
    /\ created[i].client = instance => config = constructor(created[i].config)
    /\ i # j => created[i].client # created[j].client

\* C22: once the originating caller has aborted a deduplicated get that was in
\* flight, every get awaiting that operation receives the abort error when the
\* operation completes, and the completion of the originating get removes the
\* key's pending registration.
C22_AbortReachesEveryWaiter ==
  [][\A c \in callers :
       ((Finally(c) \/ Deliver(c)) /\ c.op \in aborted)
         => /\ lastReturn'.result.type = "error"
            /\ lastReturn'.result.status = Canceled
            /\ c.role = "orig" => c.dkey \notin DOMAIN pendingRequests']_vars

\* C23: a get of the advanced client makes at most maxRetries + 1 attempts, one
\* attempt when maxRetries is 0; another attempt is only scheduled after an
\* attempt failed without response or with a status of retryStatusCodes, and
\* it starts no earlier than backoffFactor * 2^n after the failure of attempt n.
C23_AtMostMaxRetriesPlusOneAttempts ==
  /\ [](\A o \in ops : o.layer = "advanced" => o.attempt <= retryOptions.maxRetries)
  /\ [][\A o \in ops, status \in RetryFailStatuses :
          (TransportFail(o, status) /\ \E n \in ops' : n.id = o.id /\ n.state = "backoff")
            => /\ status = 0 \/ status \in retryOptions.retryStatusCodes
               /\ \A n \in ops' :
                    n.id = o.id => n.due = now + retryOptions.backoffFactor * Pow2(o.attempt)]_vars
  /\ [][\A o \in ops : RetryFire(o) => now >= o.due]_vars

\* some URL's history has gained a snapshot in this step
Appended ==
  \E url \in DOMAIN historyCache' :
    Len(historyCache'[url]) > Len(historyOf(historyCache, url))

\* C24: with time travel enabled, every successful transport GET for a URL, in
\* the foreground or as background refresh, appends exactly one snapshot with
\* the current time to the end of that URL's history and changes no other
\* history; no other step (cache hit, failed fetch, auto-fix substitution)
\* appends anything, so the timestamps of every history are non-decreasing in
\* list order; with time travel disabled the history store stays empty.
C24_OneSnapshotPerSuccessfulFetch ==
  /\ [](\A url \in DOMAIN historyCache :
          \A i \in 1..Len(historyCache[url]), j \in 1..Len(historyCache[url]) :
            i < j => historyCache[url][i].timestamp <= historyCache[url][j].timestamp)
  /\ [](~config.enableTimeTravel => historyCache = <<>>)
  /\ [][\A o \in ops :
          (TransportSucceed(o) /\ config.enableTimeTravel)
            => historyCache' =
                 MapSet(historyCache, o.url,
                        Append(historyOf(historyCache, o.url),
                               [timestamp |-> now, response |-> Response(o.call)]))]_vars
  /\ [][Appended => \E o \in ops : TransportSucceed(o)]_vars

\* a stale-while-revalidate client whose only foreground fetch and whose
\* background refresh have each appended a snapshot, the later one last
C24_Witness ==
  /\ config.strategy = "stale-while-revalidate"
  /\ stats.misses = 1
  /\ stats.hits >= 1
  /\ Len(historyOf(historyCache, <<"u1">>)) = 2
  /\ historyCache[<<"u1">>][1].timestamp < historyCache[<<"u1">>][2].timestamp

\* C25: a call of unfreezeAll() leaves the freeze overlay empty, however many
\* URLs were frozen, and every later get is handled by the strategy engine.
C25_UnfreezeAllEmptiesOverlay ==
  /\ [][unfreezeAll => freezeCache' = <<>>]_vars
  /\ [][\A url \in FreezeURLs :
          Get(url, PlainConfig) => cache' = handleRequest(cache, url, PlainConfig).cache]_vars

\* two params objects hold the same key/value pairs
SamePairs(p, q) == {p[i] : i \in 1..Len(p)} = {q[i] : i \in 1..Len(q)}

\* C26: the key of a request does not depend on the insertion order of its
\* params: two gets for the same URL whose params hold the same key/value
\* pairs have the same key, and deriving the key of a request again gives the
\* key it was given when the get began; a get whose params are those of a
\* stored fresh entry in another order is answered from that entry.
C26_CacheKeyIgnoresParamOrder ==
  /\ [](\A o1 \in ops, o2 \in ops :
          (o1.url = o2.url /\ o1.cfg.auth = o2.cfg.auth /\ SamePairs(o1.cfg.params, o2.cfg.params))
            => o1.key = o2.key)
  /\ [](\A o \in ops : o.key = generateCacheKey(o.url, o.cfg))
  /\ [][\A url \in KeyURLs, cfg1 \in KeyConfigs, cfg2 \in KeyConfigs :
          (/\ Get(url, cfg2)
           /\ SamePairs(cfg1.params, cfg2.params)
           /\ IndexOf(cache, generateCacheKey(url, cfg1)) # 0
           /\ ~isStale(Stored(generateCacheKey(url, cfg1)))
           /\ ~isExpired(Stored(generateCacheKey(url, cfg1))))
            => stats'.hits = stats.hits + 1 /\ transportCalls' = transportCalls]_vars

\* two gets in flight for one URL whose params hold the same pairs in different
\* insertion orders
C26_Witness ==
  \E o1 \in ops, o2 \in ops :
       /\ o1.url = o2.url
       /\ o1.cfg.params # o2.cfg.params
       /\ Len(o1.cfg.params) = 2
       /\ SamePairs(o1.cfg.params, o2.cfg.params)
       /\ o1.key = o2.key

\* the log entries of url
EntriesOf(url) == {i \in 1..Len(requestLog) : requestLog[i].url = url}

\* C27: detectDuplicates() returns one element for every URL with more than 3
\* log entries and for no other URL; the element's count is the number of the
\* URL's log entries and its components are the distinct components logged for
\* the URL, each once; the elements are in descending order of count.
C27_DetectDuplicatesAboveThree ==
  LET d == detectDuplicates(requestLog) IN
  /\ {d[i].url : i \in 1..Len(d)} = {url \in LogURLs : Cardinality(EntriesOf(url)) > 3}
  /\ \A i \in 1..Len(d), j \in 1..Len(d) :
       /\ i # j => d[i].url # d[j].url
       /\ i < j => d[i].count >= d[j].count
  /\ \A i \in 1..Len(d) :
       /\ d[i].count = Cardinality(EntriesOf(d[i].url))
       /\ {d[i].components[k] : k \in 1..Len(d[i].components)}
            = {requestLog[n].component : n \in EntriesOf(d[i].url)} \ {""}
       /\ \A k \in 1..Len(d[i].components), l \in 1..Len(d[i].components) :
            k # l => d[i].components[k] # d[i].components[l]

\* u1 was logged first and 4 times, u2 5 times, some of them from component A:
\* both are reported, u2 first
C27_Witness ==
  LET d == detectDuplicates(requestLog) IN
  /\ Len(requestLog) = 9
  /\ requestLog[1].url = <<"u1">>
  /\ Len(d) = 2
  /\ d[1] = [url |-> <<"u2">>, count |-> 5, components |-> <<"A">>]
  /\ d[2].url = <<"u1">> /\ d[2].count = 4

\* C28: a call of post, put or delete issues exactly one transport call and
\* leaves the entry store, the hit and miss counters, the history store and
\* the pending map as they are, whatever is stored or pending.
C28_WritesBypassTheCache ==
  [][\A url \in VerbURLs :
       (post(url) \/ put(url) \/ delete(url))
         => /\ transportCalls' = transportCalls + 1
            /\ UNCHANGED <<cache, stats, historyCache, pendingRequests>>]_vars

\* a write was made (more transport calls than fetches) by a client with a
\* stored entry for the URL, and either a pending get or a snapshot in history
C28_Witness ==
  /\ transportCalls > stats.misses
  /\ cache # <<>>
  /\ pendingRequests # <<>> \/ historyCache # <<>>

\* C29: getStats() returns the hits and misses as they are and does not change
\* them, size equal to the number of entries in the entry store at that
\* moment, and ratio equal to hits / (hits + misses), or 0 when hits + misses
\* is 0.
C29_GetStatsReportsCountersAndSize ==
  [][getStats
       => LET total == stats.hits + stats.misses IN
          /\ stats'.hits = stats.hits
          /\ stats'.misses = stats.misses
          /\ stats'.size = Len(cache)
          /\ stats'.ratio[2] # 0
          /\ IF total > 0 THEN stats'.ratio[1] * total = stats.hits * stats'.ratio[2]
                          ELSE stats'.ratio[1] = 0]_vars

\* statistics read after two misses and one hit, with both URLs stored: ratio
\* 1/3 and size 2
C29_Witness ==
  /\ stats.hits = 1
  /\ stats.misses = 2
  /\ stats.ratio = <<1, 3>>
  /\ stats.size = 2
  /\ Len(cache) = 2

\* a prefetch of url has completed successfully and its entry is within maxAge
Prefetched(url) ==
  LET i == IndexOf(cache, generateCacheKey(url, PlainConfig)) IN
  /\ i # 0
  /\ ~isExpired(cache[i])
  /\ ~isStale(cache[i])
  /\ ~\E o \in ops : o.url = url

\* C30: once a package-level prefetch(url) has completed successfully, a
\* package-level get(url) made within maxAge is served from the cache and
\* issues no transport call.
C30_GetAfterPrefetchIsServedFromCache ==
  [][\A url \in PackageURLs :
       (Prefetched(url) /\ packageGet(url)) => transportCalls' = transportCalls]_vars

C32_FreezeSnapshotsDerivedKeys ==
  [][\A url \in FreezeKeyURLs, cfg \in FreezeKeyConfigs :
       LET cacheKey == generateCacheKey(url, cfg)
           stored == LRUget(cache, cacheKey).value
       IN (freeze(url) /\ cacheKey # url /\ stored # <<>>)
            => \E k \in DOMAIN freezeCache' :
                 /\ freezeCache'[k].key = cacheKey
                 /\ freezeCache'[k].response = stored[1].response]_vars

\* a get that was handed the pending operation op has called its abort()
AbortedByJoiner(op) ==
  \E j \in callers : j.role = "join" /\ j.op = op /\ j.id \in aborted

\* C33: once a get that was deduplicated onto another get's operation has
\* called abort(), the operation's transport call is cancelled (it does not
\* complete with a response) and every get awaiting the operation, the
\* aborting one included, receives the abort error.
C33_JoinerAbortReachesEveryWaiter ==
  /\ [][\A o \in ops : AbortedByJoiner(o.id) => ~TransportSucceed(o)]_vars
  /\ [][\A c \in callers :
          ((Finally(c) \/ Deliver(c)) /\ AbortedByJoiner(c.op))
            => /\ lastReturn'.result.type = "error"
               /\ lastReturn'.result.status = Canceled]_vars

\* C34: once abort() has been called on an abortableGet in flight, its
\* operation starts no further attempt: the cancelled attempt schedules no
\* retry, and no attempt of an aborted operation issues a transport call.
C34_AbortedAttemptIsNotRetried ==
  /\ [][\A o \in ops :
          (TransportFail(o, Canceled) /\ o.layer = "advanced")
            => ~\E n \in ops' : n.id = o.id /\ n.state = "backoff"]_vars
  /\ [][\A o \in ops :
          (RetryFire(o) /\ o.id \in aborted) => transportCalls' = transportCalls]_vars

\* C35: with enableIntelligencePanel true every get call appends exactly one
\* entry with its URL and the current time at the end of the request log,
\* whatever path serves it (hit, miss, failure, time travel); nothing else
\* changes the log, and with enableIntelligencePanel false it never changes.
C35_EveryGetIsLogged ==
  /\ [][\A url \in IntelligenceURLs, cfg \in IntelligenceConfigs :
          Get(url, cfg)
            => IF config.enableIntelligencePanel
               THEN /\ Len(requestLog') = Len(requestLog) + 1
                    /\ SubSeq(requestLog', 1, Len(requestLog)) = requestLog
                    /\ requestLog'[Len(requestLog')].url = url
                    /\ requestLog'[Len(requestLog')].timestamp = now
               ELSE requestLog' = requestLog]_vars
  /\ [][calls' = calls => requestLog' = requestLog]_vars

\* C36: the last successful response of a URL is the response of the
\* transport GET for that URL that succeeded last, in the foreground or in a
\* background refresh: a successful GET records its response under its URL
\* and leaves the other URLs' records alone, and no other step (a failed
\* fetch, an auto-fix substitution, a hit, clearCache, an eviction, an
\* expiry) changes any record.
C36_LastSuccessfulIsLatestTransportSuccess ==
  /\ [][\A o \in ops :
          TransportSucceed(o)
            => /\ DOMAIN lastSuccessfulResponses' = DOMAIN lastSuccessfulResponses \cup {o.url}
               /\ lastSuccessfulResponses'[o.url] = Response(o.call)
               /\ \A u \in DOMAIN lastSuccessfulResponses \ {o.url} :
                    lastSuccessfulResponses'[u] = lastSuccessfulResponses[u]]_vars
  /\ [][(~\E o \in ops : TransportSucceed(o))
          => lastSuccessfulResponses' = lastSuccessfulResponses]_vars
  /\ [](DOMAIN lastSuccessfulResponses \subseteq LastURLs)

\* a background refresh has replaced the record of the first fetch: the entry
\* store was cleared since, and the record still names the refresh's response
C36_Witness ==
  /\ config.strategy = "stale-while-revalidate"
  /\ lastSuccessfulResponses = MapSet(<<>>, <<"u1">>, Response(2))
  /\ stats.hits = 1
  /\ cache = <<>>
  /\ ops = {}

\* the snapshots of a history that are no older than historyRetention
NotOlderThanRetention(history) ==
  SelectSeq(history, LAMBDA entry : ~((now - entry.timestamp) > historyRetention))

\* C37: the history sweep removes exactly the snapshots whose age, now minus
\* timestamp, is greater than historyRetention: it keeps all others in their
\* order and drops a URL whose list becomes empty; no other step (a get, a
\* time-travel read) removes a snapshot.
C37_SweepRemovesSnapshotsOlderThanRetention ==
  /\ [][cleanupHistory
          => historyCache' =
               [url \in {u \in DOMAIN historyCache :
                           NotOlderThanRetention(historyCache[u]) # <<>>}
                  |-> NotOlderThanRetention(historyCache[url])]]_vars
  /\ [][~cleanupHistory
          => \A url \in DOMAIN historyCache :
               /\ url \in DOMAIN historyCache'
               /\ Len(historyCache'[url]) >= Len(historyCache[url])
               /\ SubSeq(historyCache'[url], 1, Len(historyCache[url])) = historyCache[url]]_vars

\* C38: the completion of a stale-while-revalidate background refresh, with a
\* response or with an error, leaves the hit and miss counters as they were.
C38_RefreshCompletionKeepsCounters ==
  [][\A o \in ops :
       (/\ o.phase = "refresh"
        /\ TransportSucceed(o) \/ \E status \in FailStatuses : TransportFail(o, status))
         => /\ stats'.hits = stats.hits
            /\ stats'.misses = stats.misses]_vars

\* a refresh has completed with a response that replaced the stored one, after
\* one miss (the first get) and one hit (the get that started the refresh)
C38_Witness ==
  /\ config.strategy = "stale-while-revalidate"
  /\ calls = 2
  /\ transportCalls = 2
  /\ ops = {}
  /\ stats.hits = 1 /\ stats.misses = 1
  /\ Len(cache) = 1
  /\ cache[1].response = Response(2)
  /\ lastReturn = Return(2, Response(1))

\* the URLs that detectDuplicates reports
DuplicateURLs == {url \in SuggestURLs \cup {OtherURL} : Cardinality(EntriesOf(url)) > 3}

\* the elements of a sequence
Range(s) == {s[i] : i \in 1..Len(s)}

C40_ConstructorLoadsStoredEntries ==
  [][\A options \in PersistOptions :
       (createAdvancedClient(options) /\ options.persistCache /\ options.localStorage) =>
          /\ transportCalls' = transportCalls
          /\ \A i \in 1..Len(localStorage) :
               LET it == localStorage[i] IN
               hasPrefix(it.key) =>
                 LET held == LRUget(cache', urlOfKey(it.key)).value IN
                 IF now - it.entry.timestamp < advancedMaxAge
                 THEN held # <<>> /\ held[1].response = StoredResponse(it.entry)
                 ELSE held = <<>>]_vars

\* the store holds key k
Holds(c, k) == IndexOf(c, k) # 0

\* a step leaves the recency order alone except for the one key it uses, which
\* becomes the most recent
KeepsOrder(c, d) ==
  \A i \in 1..Len(c), j \in 1..Len(c) :
    (i < j /\ Holds(d, c[i].key) /\ Holds(d, c[j].key))
      => \/ IndexOf(d, c[i].key) < IndexOf(d, c[j].key)
         \/ IndexOf(d, c[i].key) = Len(d)

\* C18: the entry store never holds more than maxSize entries.  Its order is
\* the order of last use: a read that finds a live entry and every store make
\* their key the most recent, and no step reorders the others.  A store of a
\* new key into a full store removes the least recently used entry, whatever
\* the ages of the entries, and nothing else; apart from that an entry only
\* leaves the store when its ttl has run out.
C18_BoundedStoreEvictsLeastRecentlyUsed ==
  /\ [](Len(cache) <= config.maxSize)
  /\ [][/\ KeepsOrder(cache, cache')
        /\ \A i \in 1..Len(cache) :
             ~Holds(cache', cache[i].key)
               => \/ isStale(cache[i])
                  \/ /\ i = 1
                     /\ Len(cache) = config.maxSize
                     /\ ~Holds(cache, cache'[Len(cache')].key)]_vars
  /\ [][\A o \in ops :
          TransportSucceed(o)
            => LET new == Entry(o.key, Response(o.call)) IN
               cache' = CASE Holds(cache, o.key)
                               -> RemoveAt(cache, IndexOf(cache, o.key)) \o <<new>>
                          [] Len(cache) = config.maxSize -> Tail(cache) \o <<new>>
                          [] OTHER -> cache \o <<new>>]_vars
  /\ [][\A url \in LRUURLs :
          (Get(url, PlainConfig) \/ (url \in LRUFrozenURLs /\ freeze(url)))
            => LET i == IndexOf(cache, generateCacheKey(url, PlainConfig)) IN
               (i # 0 /\ ~isStale(cache[i]))
                 => cache' = RemoveAt(cache, i) \o <<cache[i]>>]_vars

\* u1 was stored at time 0 and u2 after it at time 1; u1 was then read, and the
\* store of u3 into the full store has evicted u2, the younger but less
\* recently used entry
C18_Witness ==
  /\ Len(cache) = config.maxSize
  /\ cache[1].key = <<"u1">> /\ cache[1].timestamp = 0
  /\ cache[2].key = <<"u3">>
  /\ <<"u2">> \in DOMAIN historyCache
  /\ \E i \in 1..Len(historyCache[<<"u2">>]) : historyCache[<<"u2">>][i].timestamp = 1
  /\ \A i \in 1..Len(cache) : ~isStale(cache[i])

\* C19: clearCache() empties the entry store and sets the hit and the miss
\* counter to 0, and keeps the history store and the freeze overlay.
C19_ClearCacheResetsCounters ==
  [][clearCache
       => /\ cache' = <<>>
          /\ stats'.hits = 0 /\ stats'.misses = 0
          /\ historyCache' = historyCache
          /\ freezeCache' = freezeCache]_vars

\* C20: every strategy-path get that made a foreground transport attempt has
\* counted one miss and every one answered from a stored entry one hit, so once
\* all gets have completed hits + misses is the number of gets.
C20_HitsPlusMissesCountGets ==
  ops = {} => stats.hits + stats.misses = calls

====
